---- MODULE Spec2Model ----
(***************************************************************************)
(* Jazz: a multi-tenant log ingestion and retrieval service.              *)
(*                                                                         *)
(* The model has three layers, each translated from the Go source:        *)
(*   - the database package helpers (QueryBuilder, validateLimit,         *)
(*     validateOffset, SearchQueryParser) as operators;                   *)
(*   - the relational store (tables projects and logs, the statements the *)
(*     database package sends to it) as operators over sets of rows;      *)
(*   - the HTTP layer (AuthRequired middleware and the handlers) as the   *)
(*     actions of the state machine Spec.                                 *)
(* SpecQB is the state machine of one QueryBuilder object driven by       *)
(* arbitrary calls of its methods.                                        *)
(*                                                                         *)
(* Representation.  A UUID is a natural number (uuid.New and              *)
(* gen_random_uuid return a value never returned before).  A time.Time is *)
(* an integer; 0 is Go's zero time (time.Time{}.IsZero()).  A Go string   *)
(* that the code only compares is a TLA+ string; a string the code takes  *)
(* apart (the Authorization header, a search query) is a sequence of      *)
(* one-character strings.  A positional argument sent to the store is a   *)
(* record [t |-> type, v |-> value].                                      *)
(***************************************************************************)
EXTENDS Integers, Sequences, FiniteSets, TLC

VARIABLES
    projects,   \* table projects: set of [id, name, api_key]
    logs,       \* table logs: set of [id, project_id, level, message, source, timestamp]
    nextUUID,   \* number of UUIDs generated so far
    ctx,        \* per request slot: the gin context after the middleware ran
    resp,       \* the last HTTP response written
    call,       \* the last call into the database package and what it sent to the store
    qb,         \* SpecQB: the QueryBuilder object
    qbLast      \* SpecQB: the last method called on qb, its inputs and its result

vars == <<projects, logs, nextUUID, ctx, resp, call, qb, qbLast>>

(***************************************************************************)
(* Bounds of the exploration.                                              *)
(***************************************************************************)
MaxUUID == 5        \* UUIDs generated in one behaviour
MaxConds == 4       \* conditions added to one QueryBuilder in SpecQB
MaxQueryLen == 4    \* characters of a short query text in SpecParse

Nil == [t |-> "nil"]

(***************************************************************************)
(* Generic helpers.                                                        *)
(***************************************************************************)
Range(s) == {s[i] : i \in 1..Len(s)}

Min(a, b) == IF a < b THEN a ELSE b

Max(a, b) == IF a > b THEN a ELSE b

(***************************************************************************)
(* database/query_builder.go                                               *)
(***************************************************************************)
columnID == "id"
columnProjectID == "project_id"
columnLevel == "level"
columnMessage == "message"
columnSource == "source"
columnTimestamp == "timestamp"

\* time.Parse(time.RFC3339, s) on the inputs of the model: the instant, or an
\* error.  The strings are the ones the repository's tests use, plus the same
\* instant written with a zone offset.
RFC3339Table ==
    [s \in {"2024-11-01T00:00:00Z", "2024-11-02T00:00:00Z",
            "2024-11-03T00:00:00Z", "2024-11-02T01:00:00+01:00"} |->
        CASE s = "2024-11-01T00:00:00Z" -> 1
          [] s = "2024-11-02T00:00:00Z" -> 2
          [] s = "2024-11-02T01:00:00+01:00" -> 2
          [] s = "2024-11-03T00:00:00Z" -> 3]

parseRFC3339(s) ==
    IF s \in DOMAIN RFC3339Table
    THEN [err |-> Nil, time |-> RFC3339Table[s]]
    ELSE [err |-> [t |-> "ParseError", v |-> s], time |-> 0]

\* A value bound to a placeholder.
TextArg(s) == [t |-> "text", v |-> s]
UUIDArg(u) == [t |-> "uuid", v |-> u]
TimeArg(x) == [t |-> "time", v |-> x]
IntArg(n) == [t |-> "int", v |-> n]
TsQueryArg(q) == [t |-> "tsquery", v |-> q]

\* One condition of the WHERE clause: the text "<column> <op> $<ph>".  The
\* full-text condition is "to_tsvector('english', message) @@
\* to_tsquery('english', $<ph>)".
Cond(column, op, ph) == [column |-> column, op |-> op, ph |-> ph]

NewQueryBuilder == [conditions |-> <<>>, args |-> <<>>, argCount |-> 1]

AddCondition_NoIncrement(b, column, value) ==
    [conditions |-> Append(b.conditions, Cond(column, "=", b.argCount)),
     args |-> Append(b.args, value),
     argCount |-> b.argCount]

AddCondition_Interpolated(b, column, value) ==
    [conditions |-> Append(b.conditions,
                           [column |-> column, op |-> "=", ph |-> b.argCount,
                            literal |-> value]),
     args |-> Append(b.args, value),
     argCount |-> b.argCount + 1]

AddCondition(b, column, value) ==
    [conditions |-> Append(b.conditions, Cond(column, "=", b.argCount)),
     args |-> Append(b.args, value),
     argCount |-> b.argCount + 1]

\* The first half of AddTimeRange: the start bound.
AddStart(b, column, start) ==
    IF start = "" THEN [qb |-> b, err |-> Nil]
    ELSE LET p == parseRFC3339(start) IN
         IF p.err # Nil
         THEN [qb |-> b, err |-> [t |-> "invalid start_time", v |-> p.err]]
         ELSE [qb |-> [conditions |-> Append(b.conditions, Cond(column, ">=", b.argCount)),
                       args |-> Append(b.args, TimeArg(p.time)),
                       argCount |-> b.argCount + 1],
               err |-> Nil]

AddEnd_Exclusive(b, column, end) ==
    IF end = "" THEN [qb |-> b, err |-> Nil]
    ELSE LET p == parseRFC3339(end) IN
         IF p.err # Nil
         THEN [qb |-> b, err |-> [t |-> "invalid end_time", v |-> p.err]]
         ELSE [qb |-> [conditions |-> Append(b.conditions, Cond(column, "<", b.argCount)),
                       args |-> Append(b.args, TimeArg(p.time)),
                       argCount |-> b.argCount + 1],
               err |-> Nil]

\* The second half of AddTimeRange: the end bound.
AddEnd(b, column, end) ==
    IF end = "" THEN [qb |-> b, err |-> Nil]
    ELSE LET p == parseRFC3339(end) IN
         IF p.err # Nil
         THEN [qb |-> b, err |-> [t |-> "invalid end_time", v |-> p.err]]
         ELSE [qb |-> [conditions |-> Append(b.conditions, Cond(column, "<=", b.argCount)),
                       args |-> Append(b.args, TimeArg(p.time)),
                       argCount |-> b.argCount + 1],
               err |-> Nil]

\* AddTimeRange mutates the builder in place: the start bound is appended
\* before the end bound is parsed, and stays when the end bound is rejected.
AddTimeRange(b, column, start, end) ==
    LET s == AddStart(b, column, start) IN
    IF s.err # Nil THEN s ELSE AddEnd(s.qb, column, end)

AddFullTextSearch(b, searchQuery) ==
    [conditions |-> Append(b.conditions, Cond(columnMessage, "@@", b.argCount)),
     args |-> Append(b.args, TsQueryArg(searchQuery)),
     argCount |-> b.argCount + 1]

\* "WHERE " + strings.Join(conditions, " AND "), or "" without conditions: the
\* sequence of the joined conditions.
WhereClause(b) == b.conditions

Args(b) == b.args

NextArgNum(b) == b.argCount

validateLimit_NoMax(limit, defaultLimit, maxLimit) ==
    IF limit <= 0 THEN defaultLimit ELSE limit

validateLimit(limit, defaultLimit, maxLimit) ==
    IF limit <= 0 THEN defaultLimit
    ELSE IF limit > maxLimit THEN maxLimit
    ELSE limit

validateOffset(offset) == IF offset < 0 THEN 0 ELSE offset

(***************************************************************************)
(* database/search.go: SearchQueryParser.  A query is a sequence of        *)
(* one-character strings; len() counts bytes, so a character outside ASCII *)
(* counts for more than one.                                               *)
(***************************************************************************)
minLength == 3
maxLength == 1000

IsSpace(c) == c \in {" ", "\t", "\n"}

\* The bytes of one character in UTF-8 ("U+00E9" stands for the two-byte e acute).
ByteLen(c) == IF c = "U+00E9" THEN 2 ELSE 1

\* len(s) of a Go string: the number of its bytes, one for each character and
\* one more for each two-byte character.
GoLen(s) == Len(s) + Cardinality({i \in 1..Len(s) : ByteLen(s[i]) = 2})

\* strings.TrimSpace
TrimSpace(s) ==
    LET keep == {i \in 1..Len(s) : ~IsSpace(s[i])} IN
    IF keep = {} THEN <<>>
    ELSE SubSeq(s, CHOOSE i \in keep : \A j \in keep : i <= j,
                   CHOOSE i \in keep : \A j \in keep : i >= j)

\* strings.ToLower on one character.
ToLowerChar(c) ==
    CASE c = "A" -> "a" [] c = "B" -> "b" [] c = "D" -> "d" [] c = "E" -> "e"
      [] c = "I" -> "i" [] c = "O" -> "o" [] c = "R" -> "r" [] c = "T" -> "t"
      [] OTHER -> c

ToLower(w) == [i \in 1..Len(w) |-> ToLowerChar(w[i])]

\* sanitize: strings.ReplaceAll of each of  "  '  (  )  by the empty string.
sanitize(query) ==
    LET unsafe(c) == c \in {"\"", "'", "(", ")"}
    IN  SelectSeq(query, LAMBDA c : ~unsafe(c))

\* strings.Fields: the maximal runs of non-space characters, in order.
Fields(s) ==
    LET starts == {i \in 1..Len(s) : ~IsSpace(s[i]) /\ (i = 1 \/ IsSpace(s[i - 1]))}
        endOf(i) == CHOOSE j \in i..Len(s) :
                        /\ \A k \in i..j : ~IsSpace(s[k])
                        /\ (j = Len(s) \/ IsSpace(s[j + 1]))
        kth(k) == CHOOSE i \in starts : Cardinality({j \in starts : j < i}) = k - 1
    IN  [k \in 1..Cardinality(starts) |-> SubSeq(s, kth(k), endOf(kth(k)))]

filterValidWords(words) ==
    LET long(w) == GoLen(w) >= 2
        kept == SelectSeq(words, long)
    IN  [i \in 1..Len(kept) |-> ToLower(kept[i])]

\* strings.Join(words, sep)
RECURSIVE Join(_, _)
Join(words, sep) ==
    IF Len(words) = 0 THEN <<>>
    ELSE IF Len(words) = 1 THEN words[1]
    ELSE words[1] \o sep \o Join(Tail(words), sep)

Parse(query) ==
    LET trimmed == TrimSpace(query) IN
    IF GoLen(trimmed) < minLength
    THEN [err |-> [t |-> "search query must be at least 3 characters"], tsQuery |-> <<>>]
    ELSE IF GoLen(trimmed) > maxLength
    THEN [err |-> [t |-> "search query too long"], tsQuery |-> <<>>]
    ELSE LET words == Fields(sanitize(trimmed)) IN
         IF Len(words) = 0
         THEN [err |-> [t |-> "search query is empty"], tsQuery |-> <<>>]
         ELSE LET validWords == filterValidWords(words) IN
              IF Len(validWords) = 0
              THEN [err |-> [t |-> "no valid search terms"], tsQuery |-> <<>>]
              ELSE [err |-> Nil, tsQuery |-> Join(validWords, <<" ", "&", " ">>)]

(***************************************************************************)
(* The store: PostgreSQL with the schema of                                *)
(* database/migrations/001_initial_schema.sql, and the statements the      *)
(* database package sends to it.                                           *)
(***************************************************************************)

\* VARCHAR(20) of logs.level and the levels of the model: LongLevel stands for
\* a level of 21 characters.
LevelColumnWidth == 20
LevelLen(level) == IF level = "LongLevel" THEN 21 ELSE 5

\* The row the migration inserts: the development project.
TestProject ==
    [id |-> 100, name |-> "Test Project",
     api_key |-> [prefix |-> "test_key_", token |-> 12345]]

ProjectIDs(projs) == {p.id : p \in projs}

InsertAccepted_NoForeignKey(projs, lgs, e) ==
    /\ \A l \in lgs : l.id # e.id
    /\ LevelLen(e.level) <= LevelColumnWidth

\* INSERT INTO logs ...: the row is accepted when it violates no constraint:
\* the primary key, the foreign key to projects, NOT NULL and the column widths.
InsertAccepted(projs, lgs, e) ==
    /\ e.project_id \in ProjectIDs(projs)
    /\ \A l \in lgs : l.id # e.id
    /\ LevelLen(e.level) <= LevelColumnWidth

\* The statements of a batch run one after the other, each seeing the rows
\* of the ones before it; the result is the rows inserted up to the first
\* statement that failed and its index (from 0), or -1.
RunInserts(projs, lgs, batch) ==
    LET distinct == Cardinality({batch[i].id : i \in 1..Len(batch)}) = Len(batch)
        rejected == {i \in 1..Len(batch) :
                        \/ ~InsertAccepted(projs, lgs, batch[i])
                        \/ ~distinct /\ \E j \in 1..(i - 1) : batch[j].id = batch[i].id}
        first == IF rejected = {} THEN Len(batch) + 1
                 ELSE CHOOSE i \in rejected : \A j \in rejected : i <= j
    IN  [logs |-> lgs \cup {batch[j] : j \in 1..(first - 1)},
         failed |-> IF rejected = {} THEN -1 ELSE first - 1]

SendBatch_NoRollback(up, projs, lgs, batch) ==
    IF ~up THEN [logs |-> lgs, failed |-> 0]
    ELSE RunInserts(projs, lgs, batch)

\* pgxpool.Pool.SendBatch: the queued statements are sent in one round trip
\* and run in one implicit transaction: the first failure rolls all of them
\* back.  up = FALSE is a store that cannot be reached.
SendBatch(up, projs, lgs, batch) ==
    IF ~up THEN [logs |-> lgs, failed |-> 0]
    ELSE LET r == RunInserts(projs, lgs, batch) IN
         IF r.failed = -1 THEN r ELSE [logs |-> lgs, failed |-> r.failed]

\* to_tsquery('english', q) on the expressions of the model: the lexemes the
\* expression conjoins.
TsQueryLexemes(q) == {w \in Range(Fields(q)) : w # <<"&">>}

\* to_tsvector('english', message) @@ to_tsquery('english', q): every lexeme
\* of the query is a word of the message.
TsMatch(message, q) == TsQueryLexemes(q) \subseteq Range(message)

\* ts_rank: grows with the number of occurrences of the query's lexemes.
TsRank(message, q) ==
    Cardinality({i \in 1..Len(message) : message[i] \in TsQueryLexemes(q)})

\* Whether the value bound to a condition's placeholder has the column's type.
CondTyped(c, args) ==
    /\ c.ph \in 1..Len(args)
    /\ args[c.ph].t =
         CASE c.op = "@@" -> "tsquery"
           [] c.column = columnProjectID -> "uuid"
           [] c.column = columnTimestamp -> "time"
           [] OTHER -> "text"

\* Whether a row satisfies one condition of the WHERE clause.
CondHolds(row, c, args) ==
    LET a == args[c.ph].v IN
    CASE c.op = "@@" -> TsMatch(row.message, a)
      [] c.op = ">=" -> row.timestamp >= a
      [] c.op = "<=" -> row.timestamp <= a
      [] c.op = ">" -> row.timestamp > a
      [] c.op = "<" -> row.timestamp < a
      [] c.column = columnProjectID -> row.project_id = a
      [] c.column = columnLevel -> row.level = a
      [] c.column = columnSource -> row.source = a

Before_Ascending(a, b, orderBy) ==
    IF orderBy = "rank"
    THEN a.rank < b.rank \/ (a.rank = b.rank /\ a.timestamp < b.timestamp)
    ELSE a.timestamp < b.timestamp

\* ORDER BY: whether row a must come before row b.
Before(a, b, orderBy) ==
    IF orderBy = "rank"
    THEN a.rank > b.rank \/ (a.rank = b.rank /\ a.timestamp > b.timestamp)
    ELSE a.timestamp > b.timestamp

\* Every order of the rows that ORDER BY allows: rows that compare equal come
\* in any order.
RECURSIVE Orderings(_, _)
Orderings(S, orderBy) ==
    IF S = {} THEN {<<>>}
    ELSE UNION {{<<m>> \o o : o \in Orderings(S \ {m}, orderBy)} :
                m \in {x \in S : \A y \in S : ~Before(y, x, orderBy)}}

\* SELECT ..., [ts_rank(..., $2) as rank,] COUNT(*) OVER() as total_count
\* FROM logs WHERE <where> ORDER BY <orderBy> LIMIT $<limitPh> OFFSET $<offsetPh>
\* with the arguments args: the results the store may return.
ExecSelect(up, lgs, sql, args) ==
    LET phs == {sql.limitPh, sql.offsetPh} \cup (IF sql.rank THEN {2} ELSE {})
        typed == /\ up
                 /\ \A i \in 1..Len(sql.where) : CondTyped(sql.where[i], args)
                 /\ phs \subseteq 1..Len(args)
                 /\ args[sql.limitPh].t = "int" /\ args[sql.limitPh].v >= 0
                 /\ args[sql.offsetPh].t = "int" /\ args[sql.offsetPh].v >= 0
                 /\ sql.rank => args[2].t = "tsquery"
    IN  IF ~typed THEN {[err |-> [t |-> "store error"], rows |-> <<>>, matched |-> {}]}
        ELSE LET matched == {r \in lgs : \A i \in 1..Len(sql.where) :
                                            CondHolds(r, sql.where[i], args)}
                 ranked == {[row |-> r, timestamp |-> r.timestamp,
                             rank |-> IF sql.rank THEN TsRank(r.message, args[2].v) ELSE 0,
                             total_count |-> Cardinality(matched)] : r \in matched}
                 limit == args[sql.limitPh].v
                 offset == args[sql.offsetPh].v
             IN  {[err |-> Nil,
                   rows |-> SubSeq(o, offset + 1, Min(offset + limit, Len(o))),
                   matched |-> matched] : o \in Orderings(ranked, sql.orderBy)}

(***************************************************************************)
(* database/logs.go, database/search.go, database/projects.go              *)
(***************************************************************************)
defaultLimit == 50
maxLimit == 1000

BatchInsertError_Swapped(failedIndex, totalLogs) ==
    [t |-> "BatchInsertError", FailedIndex |-> totalLogs, TotalLogs |-> failedIndex]

\* BatchInsertError{FailedIndex, TotalLogs}
BatchInsertError(failedIndex, totalLogs) ==
    [t |-> "BatchInsertError", FailedIndex |-> failedIndex, TotalLogs |-> totalLogs]

InsertLogsBatch_AlwaysSend(up, projs, lgs, batch) ==
    LET results == SendBatch(up, projs, lgs, batch) IN
    [err |-> IF results.failed = -1 THEN Nil
             ELSE BatchInsertError(results.failed, Len(batch)),
     logs |-> results.logs,
     sent |-> TRUE]

InsertLogsBatch(up, projs, lgs, batch) ==
    IF Len(batch) = 0 THEN [err |-> Nil, logs |-> lgs, sent |-> FALSE]
    ELSE LET results == SendBatch(up, projs, lgs, batch) IN
         [err |-> IF results.failed = -1 THEN Nil
                  ELSE BatchInsertError(results.failed, Len(batch)),
          logs |-> results.logs,
          sent |-> TRUE]

\* scanLog: one result row as a LogEntry; Rank is set only with includeRank.
scanLog(row, includeRank) ==
    [id |-> row.row.id, project_id |-> row.row.project_id, level |-> row.row.level,
     message |-> row.row.message, source |-> row.row.source,
     timestamp |-> row.row.timestamp,
     rank |-> IF includeRank THEN [set |-> TRUE, v |-> row.rank] ELSE [set |-> FALSE]]

\* scanLogs: the entries, and the total_count of the last row scanned (0
\* without rows).
scanLogs(rows, includeRank) ==
    [logs |-> [i \in 1..Len(rows) |-> scanLog(rows[i], includeRank)],
     total |-> IF Len(rows) = 0 THEN 0 ELSE rows[Len(rows)].total_count]

\* The common tail of QueryLogs and SearchLogs: the query text around the
\* builder's clause, the arguments, the round trip and the scan.
RunQuery(up, lgs, b, limit, offset, includeRank) ==
    LET sql == [where |-> WhereClause(b), rank |-> includeRank,
                orderBy |-> IF includeRank THEN "rank" ELSE columnTimestamp,
                limitPh |-> NextArgNum(b), offsetPh |-> NextArgNum(b) + 1]
        args == Args(b) \o <<IntArg(limit), IntArg(offset)>>
    IN  {IF r.err # Nil
         THEN [err |-> [t |-> "failed to query logs"], logs |-> <<>>, total |-> 0,
               sent |-> [sql |-> sql, args |-> args], matched |-> {}]
         ELSE [err |-> Nil, logs |-> scanLogs(r.rows, includeRank).logs,
               total |-> scanLogs(r.rows, includeRank).total,
               sent |-> [sql |-> sql, args |-> args], matched |-> r.matched]
         : r \in ExecSelect(up, lgs, sql, args)}

ScopedBuilder_Unscoped(projectID) == NewQueryBuilder

\* qb := NewQueryBuilder(); qb.AddCondition(columnProjectID, projectID)
ScopedBuilder(projectID) ==
    AddCondition(NewQueryBuilder, columnProjectID, UUIDArg(projectID))

\* The optional level and source conditions.
AddFilters(b, level, source) ==
    LET b1 == IF level # "" THEN AddCondition(b, columnLevel, TextArg(level)) ELSE b
    IN  IF source # "" THEN AddCondition(b1, columnSource, TextArg(source)) ELSE b1

Failed(err) == {[err |-> err, logs |-> <<>>, total |-> 0, sent |-> Nil, matched |-> {}]}

SearchLogs_FiltersFirst(up, lgs, projectID, req) ==
    LET parsed == Parse(req.Query) IN
    IF parsed.err # Nil THEN Failed([t |-> "invalid search query", v |-> parsed.err])
    ELSE LET b0 == AddFilters(ScopedBuilder(projectID), req.Level, req.Source)
             tr == AddTimeRange(AddFullTextSearch(b0, parsed.tsQuery), columnTimestamp,
                                req.StartTime, req.EndTime)
         IN  IF tr.err # Nil THEN Failed(tr.err)
             ELSE RunQuery(up, lgs, tr.qb,
                           validateLimit(req.Limit, defaultLimit, maxLimit),
                           validateOffset(req.Offset), TRUE)

SearchLogs(up, lgs, projectID, req) ==
    LET parsed == Parse(req.Query) IN
    IF parsed.err # Nil THEN Failed([t |-> "invalid search query", v |-> parsed.err])
    ELSE LET limit == validateLimit(req.Limit, defaultLimit, maxLimit)
             offset == validateOffset(req.Offset)
             b0 == AddFullTextSearch(ScopedBuilder(projectID), parsed.tsQuery)
             tr == AddTimeRange(AddFilters(b0, req.Level, req.Source), columnTimestamp,
                                req.StartTime, req.EndTime)
         IN  IF tr.err # Nil THEN Failed(tr.err)
             ELSE RunQuery(up, lgs, tr.qb, limit, offset, TRUE)

QueryLogs_NoDelegation(up, lgs, projectID, params) ==
    LET tr == AddTimeRange(AddFilters(ScopedBuilder(projectID), params.Level,
                                      params.Source),
                           columnTimestamp, params.StartTime, params.EndTime)
    IN  IF tr.err # Nil THEN Failed(tr.err)
        ELSE RunQuery(up, lgs, tr.qb, validateLimit(params.Limit, defaultLimit, maxLimit),
                      validateOffset(params.Offset), FALSE)

QueryLogs(up, lgs, projectID, params) ==
    IF params.Search # <<>>
    THEN SearchLogs(up, lgs, projectID,
                    [Query |-> params.Search, Level |-> params.Level,
                     Source |-> params.Source, StartTime |-> params.StartTime,
                     EndTime |-> params.EndTime, Limit |-> params.Limit,
                     Offset |-> params.Offset])
    ELSE LET limit == validateLimit(params.Limit, defaultLimit, maxLimit)
             offset == validateOffset(params.Offset)
             b0 == ScopedBuilder(projectID)
             tr == AddTimeRange(AddFilters(b0, params.Level, params.Source),
                                columnTimestamp, params.StartTime, params.EndTime)
         IN  IF tr.err # Nil THEN Failed(tr.err)
             ELSE RunQuery(up, lgs, tr.qb, limit, offset, FALSE)

\* An API key as the text of a header: one token without a space in it.
KeyString(key) == <<[t |-> "key", v |-> key]>>

\* SELECT ... FROM projects WHERE api_key = $1
GetProjectByAPIKey(up, projs, apiKey) ==
    IF ~up THEN [err |-> [t |-> "failed to get project"], project |-> Nil]
    ELSE IF \E p \in projs : KeyString(p.api_key) = apiKey
    THEN [err |-> Nil, project |-> CHOOSE p \in projs : KeyString(p.api_key) = apiKey]
    ELSE [err |-> [t |-> "invalid API key"], project |-> Nil]

generateAPIKey_NoPrefix(uuid) == [prefix |-> "", token |-> uuid]

\* fmt.Sprintf("jazz_%s", uuid.New().String())
generateAPIKey(uuid) == [prefix |-> "jazz_", token |-> uuid]

\* INSERT INTO projects (name, api_key) ... RETURNING ...: the id is the
\* column default gen_random_uuid().
CreateProject(projs, name, keyUUID, idUUID) ==
    LET project == [id |-> idUUID, name |-> name, api_key |-> generateAPIKey(keyUUID)]
    IN  IF \E p \in projs : p.api_key = project.api_key \/ p.id = project.id
        THEN [err |-> [t |-> "failed to create project"], project |-> Nil,
              projects |-> projs]
        ELSE [err |-> Nil, project |-> project, projects |-> projs \cup {project}]

\* SELECT id, name, api_key, ... FROM projects ORDER BY created_at DESC; the
\* rows are modelled as a set, their order is not.
ListProjects(up, projs) ==
    IF ~up THEN [err |-> [t |-> "failed to list projects"], projects |-> {}]
    ELSE [err |-> Nil, projects |-> projs]

\* SELECT id, name, api_key, ... FROM projects WHERE id = $1
GetProject(up, projs, projectID) ==
    IF ~up THEN [err |-> [t |-> "failed to get project"], project |-> Nil]
    ELSE IF \E p \in projs : p.id = projectID
    THEN [err |-> Nil, project |-> CHOOSE p \in projs : p.id = projectID]
    ELSE [err |-> [t |-> "project not found"], project |-> Nil]

DeleteProject_NoCascade(projs, lgs, projectID) ==
    IF projectID \notin ProjectIDs(projs)
    THEN [err |-> [t |-> "project not found"], projects |-> projs, logs |-> lgs]
    ELSE [err |-> Nil, projects |-> {p \in projs : p.id # projectID}, logs |-> lgs]

\* DELETE FROM projects WHERE id = $1; logs.project_id is declared
\* REFERENCES projects(id) ON DELETE CASCADE.
DeleteProject(projs, lgs, projectID) ==
    IF projectID \notin ProjectIDs(projs)
    THEN [err |-> [t |-> "project not found"], projects |-> projs, logs |-> lgs]
    ELSE [err |-> Nil,
          projects |-> {p \in projs : p.id # projectID},
          logs |-> {l \in lgs : l.project_id # projectID}]

(***************************************************************************)
(* middleware/auth.go.  The Authorization header is a sequence of tokens:  *)
(* Sp is one space, Word(w) the text w, and an API key is one token.       *)
(***************************************************************************)
Sp == [t |-> "sp"]
Word(w) == [t |-> "w", v |-> w]

\* strings.Split(s, " "): the parts between the spaces, one more than spaces.
Split(s) ==
    LET seps == {i \in 1..Len(s) : s[i] = Sp}
        n == Cardinality(seps)
        kth(k) == IF k = 0 THEN 0
                  ELSE IF k = n + 1 THEN Len(s) + 1
                  ELSE CHOOSE i \in seps : Cardinality({j \in seps : j < i}) = k - 1
    IN  [k \in 1..(n + 1) |-> SubSeq(s, kth(k - 1) + 1, kth(k) - 1)]

Unauthorized(message) ==
    [status |-> 401, error |-> message, next |-> FALSE, project_id |-> 0]

AuthRequired_AnyScheme(up, projs, authHeader) ==
    IF authHeader = <<>> THEN Unauthorized("authorization header required")
    ELSE LET parts == Split(authHeader) IN
         IF Len(parts) # 2 THEN Unauthorized("invalid authorization format")
         ELSE LET found == GetProjectByAPIKey(up, projs, parts[2]) IN
              IF found.err # Nil THEN Unauthorized("invalid API key")
              ELSE [status |-> 0, error |-> "", next |-> TRUE,
                    project_id |-> found.project.id]

\* AuthRequired: the 401 it writes, or c.Set("project_id", project.ID) and
\* c.Next().
AuthRequired(up, projs, authHeader) ==
    IF authHeader = <<>> THEN Unauthorized("authorization header required")
    ELSE LET parts == Split(authHeader) IN
         IF Len(parts) # 2 \/ parts[1] # <<Word("Bearer")>>
         THEN Unauthorized("invalid authorization format")
         ELSE LET found == GetProjectByAPIKey(up, projs, parts[2]) IN
              IF found.err # Nil THEN Unauthorized("invalid API key")
              ELSE [status |-> 0, error |-> "", next |-> TRUE,
                    project_id |-> found.project.id]

(***************************************************************************)
(* handlers/logs.go                                                        *)
(***************************************************************************)
maxBatchSize == 1000
minBatchSize == 1
defaultOffset == 0

\* A timestamp of a JSON body: absent, or the instant it gives.
NoTime == [set |-> FALSE]
SomeTime(x) == [set |-> TRUE, v |-> x]

\* c.ShouldBindJSON(&logs) for a body that is a JSON array of entries: each
\* entry decoded into a LogEntry (an absent field is the zero value), then the
\* binding:"required" fields validated.
BindLogs(body) ==
    IF \E i \in 1..Len(body) : body[i].level = "" \/ body[i].message = <<>>
    THEN [err |-> [t |-> "binding"], logs |-> <<>>]
    ELSE [err |-> Nil,
          logs |-> [i \in 1..Len(body) |->
                      [id |-> body[i].id, project_id |-> body[i].project_id,
                       level |-> body[i].level, message |-> body[i].message,
                       source |-> body[i].source,
                       timestamp |-> IF body[i].timestamp.set
                                     THEN body[i].timestamp.v ELSE 0]]]

Stamp_KeepProject(entries, projectID, now, lastUUID) ==
    [i \in 1..Len(entries) |->
        [id |-> lastUUID + i,
         project_id |-> IF entries[i].project_id = 0 THEN projectID
                        ELSE entries[i].project_id,
         level |-> entries[i].level, message |-> entries[i].message,
         source |-> entries[i].source,
         timestamp |-> IF entries[i].timestamp = 0 THEN now ELSE entries[i].timestamp]]


\* The loop of IngestLogs over the bound entries: uuid.New() for the i-th
\* entry is the UUID after the last one generated.
Stamp(entries, projectID, now, lastUUID) ==
    [i \in 1..Len(entries) |->
        [id |-> lastUUID + i, project_id |-> projectID,
         level |-> entries[i].level, message |-> entries[i].message,
         source |-> entries[i].source,
         timestamp |-> IF entries[i].timestamp = 0 THEN now ELSE entries[i].timestamp]]

BatchSizeOK_OffByOne(n) == ~(n < minBatchSize \/ n >= maxBatchSize)

\* The batch-size check of IngestLogs.
BatchSizeOK(n) == ~(n < minBatchSize \/ n > maxBatchSize)

\* IngestLogs after the middleware: the response, the table logs afterwards,
\* the entries handed to InsertLogsBatch and the number of UUIDs generated.
IngestLogs(up, projs, lgs, projectID, body, now, lastUUID) ==
    LET bound == BindLogs(body) IN
    IF bound.err # Nil
    THEN [status |-> 400, error |-> "binding", count |-> 0, logs |-> lgs,
          batch |-> <<>>, err |-> Nil, uuids |-> 0]
    ELSE IF ~BatchSizeOK(Len(bound.logs))
    THEN [status |-> 400, error |-> "batch size must be between 1 and 1000",
          count |-> 0, logs |-> lgs, batch |-> <<>>, err |-> Nil, uuids |-> 0]
    ELSE LET batch == Stamp(bound.logs, projectID, now, lastUUID)
             r == InsertLogsBatch(up, projs, lgs, batch)
         IN  IF r.err # Nil
             THEN [status |-> 500, error |-> "failed to store logs", count |-> 0,
                   logs |-> r.logs, batch |-> batch, err |-> r.err,
                   uuids |-> Len(batch)]
             ELSE [status |-> 201, error |-> "", count |-> Len(batch),
                   logs |-> r.logs, batch |-> batch, err |-> Nil,
                   uuids |-> Len(batch)]

\* The body of a 200 of GetLogs and SearchLogs: models.LogsResponse.
LogsResponse(r, limit, offset) ==
    [status |-> 200, error |-> "", logs |-> r.logs, total |-> r.total,
     limit |-> limit, offset |-> offset, has_more |-> offset + limit < r.total]

ErrorResponse(status, message) ==
    [status |-> status, error |-> message, logs |-> <<>>, total |-> 0,
     limit |-> 0, offset |-> 0, has_more |-> FALSE]

\* GetLogs after the middleware: the defaults it applies to the parameters,
\* and for each result QueryLogs may give, the response.
GetLogsParams(params) ==
    LET l1 == IF params.Limit <= 0 THEN defaultLimit ELSE params.Limit
        l2 == IF l1 > maxLimit THEN maxLimit ELSE l1
        o1 == IF params.Offset < 0 THEN defaultOffset ELSE params.Offset
    IN  [params EXCEPT !.Limit = l2, !.Offset = o1]

GetLogs(up, lgs, projectID, params) ==
    LET p == GetLogsParams(params) IN
    {[result |-> r,
      response |-> IF r.err # Nil THEN ErrorResponse(500, "failed to retrieve logs")
                   ELSE LogsResponse(r, p.Limit, p.Offset)]
     : r \in QueryLogs(up, lgs, projectID, p)}

\* SearchLogs (the handler) after the middleware.
SearchLogsParams(req) ==
    LET l1 == IF req.Limit = 0 THEN defaultLimit ELSE req.Limit
        l2 == IF l1 > maxLimit THEN maxLimit ELSE l1
        o1 == IF req.Offset < 0 THEN defaultOffset ELSE req.Offset
    IN  [req EXCEPT !.Limit = l2, !.Offset = o1]

SearchLogsHandler(up, lgs, projectID, req) ==
    IF Len(req.Query) < 3
    THEN {[result |-> Nil, response |-> ErrorResponse(400, "binding")]}
    ELSE LET p == SearchLogsParams(req) IN
         {[result |-> r,
           response |-> IF r.err # Nil THEN ErrorResponse(500, "search failed")
                        ELSE LogsResponse(r, p.Limit, p.Offset)]
          : r \in SearchLogs(up, lgs, projectID, p)}

(***************************************************************************)
(* handlers/projects.go                                                    *)
(***************************************************************************)

\* The lengths of the project names of the model (binding: min=3, max=255).
NameLen(name) == IF name = "ab" THEN 2 ELSE 12

\* c.JSON(status, project): the fields of models.Project with a json tag that
\* the model keeps.
ProjectJSON(p) == [id |-> p.id, name |-> p.name, api_key |-> p.api_key]

\* CreateProject (the handler): the response and the table afterwards.  The
\* 500 carries err.Error() under "details".
CreateProjectHandler(up, projs, name, keyUUID, idUUID) ==
    IF NameLen(name) < 3 \/ NameLen(name) > 255
    THEN [status |-> 400, error |-> "binding", details |-> "", project |-> Nil,
          projects |-> projs]
    ELSE LET r == IF up THEN CreateProject(projs, name, keyUUID, idUUID)
                  ELSE [err |-> [t |-> "failed to create project: store error"],
                        project |-> Nil, projects |-> projs]
         IN  IF r.err # Nil
             THEN [status |-> 500, error |-> "failed to create project",
                   details |-> r.err.t, project |-> Nil, projects |-> r.projects]
             ELSE [status |-> 201, error |-> "", details |-> "",
                   project |-> ProjectJSON(r.project), projects |-> r.projects]

\* ListProjects (the handler).
ListProjectsHandler(up, projs) ==
    LET r == ListProjects(up, projs) IN
    IF r.err # Nil
    THEN [status |-> 500, error |-> "failed to list projects", projects |-> {}, total |-> 0]
    ELSE [status |-> 200, error |-> "", projects |-> {ProjectJSON(q) : q \in r.projects},
          total |-> Cardinality(r.projects)]

\* GetProject (the handler): every error of the database call is answered 404.
\* The id in the path is a well-formed UUID.
GetProjectHandler(up, projs, projectID) ==
    LET r == GetProject(up, projs, projectID) IN
    IF r.err # Nil
    THEN [status |-> 404, error |-> "project not found", project |-> Nil, err |-> r.err]
    ELSE [status |-> 200, error |-> "", project |-> ProjectJSON(r.project), err |-> Nil]

\* DeleteProject (the handler): the response and the tables afterwards.  The
\* id in the path is a well-formed UUID.
DeleteProjectHandler(up, projs, lgs, projectID) ==
    LET r == IF up THEN DeleteProject(projs, lgs, projectID)
             ELSE [err |-> [t |-> "failed to delete project"], projects |-> projs,
                   logs |-> lgs]
    IN  IF r.err # Nil
        THEN [status |-> 500, error |-> "failed to delete project", err |-> r.err,
              projects |-> r.projects, logs |-> r.logs]
        ELSE [status |-> 200, error |-> "", err |-> Nil,
              projects |-> r.projects, logs |-> r.logs]

(***************************************************************************)
(* Spec: the service.  A request to a protected route takes two steps, the *)
(* middleware and the handler; requests of different slots interleave.     *)
(* The inputs of the requests are drawn from the sets below.               *)
(***************************************************************************)
Requests == {"r1"}

Idle == [pc |-> "idle", header |-> <<>>, project_id |-> 0]

\* Messages: sequences of words, a word a sequence of characters.
db == <<"d", "b">>
io == <<"i", "o">>
MsgDbIo == <<db, io>>
MsgDbDb == <<db, db>>

\* Entries of request bodies.
Entry(id, projectID, level, message, source, timestamp) ==
    [id |-> id, project_id |-> projectID, level |-> level, message |-> message,
     source |-> source, timestamp |-> timestamp]

Bodies ==
    { <<>>,
      <<Entry(0, 0, "error", MsgDbIo, "backend", SomeTime(1))>>,
      <<Entry(1, 100, "info", MsgDbDb, "", NoTime),
        Entry(0, 0, "error", MsgDbDb, "backend", SomeTime(0))>>,
      <<Entry(0, 0, "error", MsgDbIo, "backend", SomeTime(2)),
        Entry(0, 0, "LongLevel", MsgDbIo, "backend", SomeTime(2))>>,
      <<Entry(0, 0, "error", <<>>, "backend", SomeTime(1))>> }

\* time.Now() of a request.
Nows == {3}

\* API keys a client may present: the keys in use, the development key and a
\* key no project ever had.
ClientKeys == {p.api_key : p \in projects} \cup {TestProject.api_key, generateAPIKey(0)}

Headers ==
    {<<>>, <<Word("Bearer")>>}
    \cup {<<Word("Bearer"), Sp>> \o KeyString(k) : k \in ClientKeys}
    \cup UNION {{<<Word("Basic"), Sp>> \o KeyString(k),
                 <<Word("bearer"), Sp>> \o KeyString(k),
                 <<Word("Bearer"), Sp, Sp>> \o KeyString(k),
                 <<Word("Bearer"), Sp>> \o KeyString(k) \o <<Sp, Word("x")>>,
                 KeyString(k)} : k \in {TestProject.api_key}}

\* The search text " Db io ".
DbIo == <<" ", "D", "b", " ", "i", "o", " ">>

\* Search texts: "", "db", " Db io ", "a b c", "(io)".
SearchTexts ==
    { <<>>, <<"d", "b">>, DbIo, <<"a", " ", "b", " ", "c">>, <<"(", "i", "o", ")">> }

StartTimes == {"", "2024-11-01T00:00:00Z", "2024-11-02T01:00:00+01:00", "not-a-date"}
EndTimes == {"", "2024-11-01T00:00:00Z", "not-a-date"}

Limits == {-1, 0, 1, 2, 1001}
Offsets == {-1, 0, 1, 3}

NoFilter ==
    [Level |-> "", Source |-> "", StartTime |-> "", EndTime |-> "", Limit |-> 0,
     Offset |-> 0, Search |-> <<>>]

\* Parameters of GET /logs and bodies of POST /search: every combination of
\* filters with the default page, every page without filters, and every
\* search text.
QueryInputs ==
    {[NoFilter EXCEPT !.Level = l, !.Source = s, !.StartTime = a, !.EndTime = b,
                      !.Search = q] :
        l \in {"", "error"}, s \in {"", "backend"}, a \in StartTimes,
        b \in EndTimes, q \in {<<>>, DbIo}}
    \cup {[NoFilter EXCEPT !.Limit = n, !.Offset = o, !.Search = q] :
             n \in Limits, o \in Offsets, q \in {<<>>, DbIo}}
    \cup {[NoFilter EXCEPT !.Search = q] : q \in SearchTexts}

\* Bodies of POST /search: the inputs with a query text, and one without.
SearchInputs == {p \in QueryInputs : p.Search # <<>>} \cup {NoFilter}

\* The store fails under one request of each kind.
Ups(isDefault) == IF isDefault THEN BOOLEAN ELSE {TRUE}

SearchRequestOf(p) ==
    [Query |-> p.Search, Level |-> p.Level, Source |-> p.Source,
     StartTime |-> p.StartTime, EndTime |-> p.EndTime, Limit |-> p.Limit,
     Offset |-> p.Offset]

Init ==
    /\ projects = {TestProject}
    /\ logs = {}
    /\ nextUUID = 0
    /\ ctx = [s \in Requests |-> Idle]
    /\ resp = Nil
    /\ call = Nil
    /\ qb = NewQueryBuilder
    /\ qbLast = [op |-> "NewQueryBuilder"]

\* resp and call hold what the last step wrote until the response is
\* delivered; the next step starts after that.
Delivered == resp = Nil /\ call = Nil

Deliver ==
    /\ ~Delivered
    /\ resp' = Nil
    /\ call' = Nil
    /\ UNCHANGED <<projects, logs, nextUUID, ctx, qb, qbLast>>

\* A request to a protected route reaches the middleware.
Authenticate(s) ==
    /\ Delivered
    /\ ctx[s].pc = "idle"
    /\ \E header \in Headers, up \in BOOLEAN :
        LET r == AuthRequired(up, projects, header) IN
        IF r.next
        THEN /\ ctx' = [ctx EXCEPT ![s] = [pc |-> "authed", header |-> header,
                                           project_id |-> r.project_id]]
             /\ UNCHANGED <<resp, call>>
        ELSE /\ resp' = [handler |-> "AuthRequired", req |-> s, status |-> r.status,
                         error |-> r.error]
             /\ call' = [op |-> "AuthRequired", header |-> header, up |-> up]
             /\ UNCHANGED ctx
    /\ UNCHANGED <<projects, logs, nextUUID, qb, qbLast>>

\* POST /logs after the middleware, for one body, server time and store
\* condition; at most cap UUIDs are generated in one behaviour.
IngestStep(s, body, now, up, cap) ==
    LET r == IngestLogs(up, projects, logs, ctx[s].project_id, body, now, nextUUID) IN
    /\ Delivered
    /\ ctx[s].pc = "authed"
    /\ nextUUID + r.uuids <= cap
    /\ logs' = r.logs
    /\ nextUUID' = nextUUID + r.uuids
    /\ resp' = [handler |-> "IngestLogs", req |-> s, status |-> r.status,
                error |-> r.error, count |-> r.count]
    /\ call' = [op |-> "IngestLogs", project_id |-> ctx[s].project_id,
                header |-> ctx[s].header, body |-> body, now |-> now, up |-> up,
                batch |-> r.batch, err |-> r.err, before |-> logs]
    /\ ctx' = [ctx EXCEPT ![s] = Idle]
    /\ UNCHANGED <<projects, qb, qbLast>>

DoIngestLogs(s) ==
    \E body \in Bodies, now \in Nows, up \in BOOLEAN : IngestStep(s, body, now, up, MaxUUID)

\* GET /logs after the middleware.
DoGetLogs(s) ==
    /\ Delivered
    /\ ctx[s].pc = "authed"
    /\ \E params \in QueryInputs, up \in BOOLEAN :
        /\ up \in Ups(params = NoFilter)
        /\ \E r \in GetLogs(up, logs, ctx[s].project_id, params) :
            /\ resp' = [handler |-> "GetLogs", req |-> s] @@ r.response
            /\ call' = [op |-> "GetLogs", project_id |-> ctx[s].project_id,
                         header |-> ctx[s].header, params |-> params, up |-> up,
                         result |-> r.result]
    /\ ctx' = [ctx EXCEPT ![s] = Idle]
    /\ UNCHANGED <<projects, logs, nextUUID, qb, qbLast>>

\* POST /search after the middleware.
DoSearchLogs(s) ==
    /\ Delivered
    /\ ctx[s].pc = "authed"
    /\ \E params \in SearchInputs, up \in BOOLEAN :
        /\ up \in Ups(params = [NoFilter EXCEPT !.Search = DbIo])
        /\ \E r \in SearchLogsHandler(up, logs, ctx[s].project_id, SearchRequestOf(params)) :
            /\ resp' = [handler |-> "SearchLogs", req |-> s] @@ r.response
            /\ call' = [op |-> "SearchLogs", project_id |-> ctx[s].project_id,
                        header |-> ctx[s].header, params |-> params, up |-> up,
                        result |-> r.result]
    /\ ctx' = [ctx EXCEPT ![s] = Idle]
    /\ UNCHANGED <<projects, logs, nextUUID, qb, qbLast>>

\* POST /projects.
DoCreateProject ==
    /\ Delivered
    /\ nextUUID + 2 <= MaxUUID
    /\ \E name \in {"My Application", "ab"}, up \in BOOLEAN :
        LET r == CreateProjectHandler(up, projects, name, nextUUID + 1, nextUUID + 2) IN
        /\ projects' = r.projects
        /\ nextUUID' = IF r.status = 201 THEN nextUUID + 2 ELSE nextUUID
        /\ resp' = [handler |-> "CreateProject", status |-> r.status, error |-> r.error,
                    details |-> r.details, project |-> r.project]
        /\ call' = [op |-> "CreateProject", name |-> name, up |-> up]
    /\ UNCHANGED <<logs, ctx, qb, qbLast>>

\* GET /projects.
DoListProjects ==
    /\ Delivered
    /\ \E up \in BOOLEAN :
        LET r == ListProjectsHandler(up, projects) IN
        /\ resp' = [handler |-> "ListProjects", status |-> r.status, error |-> r.error,
                    projects |-> r.projects, total |-> r.total]
        /\ call' = [op |-> "ListProjects", up |-> up]
    /\ UNCHANGED <<projects, logs, nextUUID, ctx, qb, qbLast>>

\* GET /projects/:id.
DoGetProject ==
    /\ Delivered
    /\ \E id \in ProjectIDs(projects) \cup {TestProject.id}, up \in BOOLEAN :
        LET r == GetProjectHandler(up, projects, id) IN
        /\ resp' = [handler |-> "GetProject", status |-> r.status, error |-> r.error,
                    project |-> r.project]
        /\ call' = [op |-> "GetProject", id |-> id, up |-> up, err |-> r.err]
    /\ UNCHANGED <<projects, logs, nextUUID, ctx, qb, qbLast>>

\* DELETE /projects/:id.
DoDeleteProject ==
    /\ Delivered
    /\ \E id \in ProjectIDs(projects) \cup {TestProject.id}, up \in BOOLEAN :
        LET r == DeleteProjectHandler(up, projects, logs, id) IN
        /\ projects' = r.projects
        /\ logs' = r.logs
        /\ resp' = [handler |-> "DeleteProject", status |-> r.status, error |-> r.error]
        /\ call' = [op |-> "DeleteProject", id |-> id, up |-> up, err |-> r.err,
                    before |-> logs, projectsBefore |-> projects]
    /\ UNCHANGED <<nextUUID, ctx, qb, qbLast>>

Next ==
    \/ \E s \in Requests : Authenticate(s)
    \/ \E s \in Requests : DoIngestLogs(s)
    \/ \E s \in Requests : DoGetLogs(s)
    \/ \E s \in Requests : DoSearchLogs(s)
    \/ DoCreateProject
    \/ DoListProjects
    \/ DoGetProject
    \/ DoDeleteProject
    \/ Deliver

Spec == Init /\ [][Next]_vars

(***************************************************************************)
(* SpecBatch: one POST /logs whose batch has up to maxBatchSize + 1        *)
(* entries.  The request has passed the middleware; the project may have   *)
(* been deleted since.                                                     *)
(***************************************************************************)
BatchSizes == {0, 1, 2, 1000, 1001}

BatchEntries ==
    { Entry(0, 0, "error", MsgDbIo, "backend", SomeTime(1)),
      Entry(1, 100, "info", MsgDbDb, "", NoTime),
      Entry(0, 0, "LongLevel", MsgDbIo, "backend", SomeTime(2)) }

\* The batches of n equal entries, and those whose last entry differs.
BatchBodies ==
    {[i \in 1..n |-> e] : n \in BatchSizes, e \in BatchEntries}
    \cup {[i \in 1..n |-> IF i = n THEN e ELSE Entry(0, 0, "error", MsgDbIo, "", NoTime)] :
             n \in BatchSizes \ {0}, e \in BatchEntries}

InitBatch ==
    /\ projects \in {{TestProject}, {}}
    /\ logs = {}
    /\ nextUUID = 0
    /\ ctx = [s \in Requests |->
                [pc |-> "authed",
                 header |-> <<Word("Bearer"), Sp>> \o KeyString(TestProject.api_key),
                 project_id |-> TestProject.id]]
    /\ resp = Nil
    /\ call = Nil
    /\ qb = NewQueryBuilder
    /\ qbLast = [op |-> "NewQueryBuilder"]

DoIngestBatch(s) ==
    \E body \in BatchBodies, now \in {2, 3}, up \in BOOLEAN :
        IngestStep(s, body, now, up, maxBatchSize)

NextBatch == (\E s \in Requests : DoIngestBatch(s)) \/ Deliver

SpecBatch == InitBatch /\ [][NextBatch]_vars

(***************************************************************************)
(* SpecQB: one QueryBuilder, any sequence of method calls.                 *)
(***************************************************************************)
QBEqualities == {<<columnProjectID, UUIDArg(1)>>, <<columnLevel, TextArg("error")>>,
                 <<columnSource, TextArg("backend")>>}
TimeStrings == {"", "2024-11-01T00:00:00Z", "2024-11-02T01:00:00+01:00", "not-a-date"}

QBIdle ==
    /\ projects = {}
    /\ logs = {}
    /\ nextUUID = 0
    /\ ctx = <<>>
    /\ resp = Nil
    /\ call = Nil

InitQB ==
    /\ QBIdle
    /\ qb = NewQueryBuilder
    /\ qbLast = [op |-> "NewQueryBuilder"]

QBAddCondition ==
    /\ Len(qb.conditions) < MaxConds
    /\ \E e \in QBEqualities :
        /\ qb' = AddCondition(qb, e[1], e[2])
        /\ qbLast' = [op |-> "AddCondition", before |-> qb, value |-> e[2]]
    /\ UNCHANGED <<projects, logs, nextUUID, ctx, resp, call>>

QBAddTimeRange ==
    /\ Len(qb.conditions) + 2 <= MaxConds
    /\ \E start \in TimeStrings, end \in TimeStrings :
        LET r == AddTimeRange(qb, columnTimestamp, start, end) IN
        /\ qb' = r.qb
        /\ qbLast' = [op |-> "AddTimeRange", before |-> qb, start |-> start,
                      end |-> end, err |-> r.err]
    /\ UNCHANGED <<projects, logs, nextUUID, ctx, resp, call>>

QBAddFullTextSearch ==
    /\ Len(qb.conditions) < MaxConds
    /\ \E q \in {"database & error"} :
        /\ qb' = AddFullTextSearch(qb, q)
        /\ qbLast' = [op |-> "AddFullTextSearch", before |-> qb, value |-> TsQueryArg(q)]
    /\ UNCHANGED <<projects, logs, nextUUID, ctx, resp, call>>

NextQB == QBAddCondition \/ QBAddTimeRange \/ QBAddFullTextSearch

SpecQB == InitQB /\ [][NextQB]_vars

(***************************************************************************)
(* SpecParse: one call of SearchQueryParser.Parse on any query text.       *)
(***************************************************************************)

\* The characters of the short query texts: a lower-case and an upper-case
\* letter, a space, a character sanitize deletes, and a two-byte character.
QueryChars == {"a", "B", " ", "(", "|", "U+00E9"}

\* The query texts of at most MaxQueryLen characters.
ShortQueries == UNION {[1..n -> QueryChars] : n \in 0..MaxQueryLen}

\* "a database b error" and "Database ERROR Timeout".
ExampleQueries ==
    { <<"a", " ", "d", "a", "t", "a", "b", "a", "s", "e", " ", "b", " ",
        "e", "r", "r", "o", "r">>,
      <<"D", "a", "t", "a", "b", "a", "s", "e", " ", "E", "R", "R", "O", "R", " ",
        "T", "i", "m", "e", "o", "u", "t">> }

\* Query texts around maxLength: 1000 and 1001 one-byte characters, and 501
\* two-byte characters.
LongQueries ==
    { [i \in 1..maxLength |-> "a"], [i \in 1..(maxLength + 1) |-> "a"],
      [i \in 1..501 |-> "U+00E9"] }

ParseInputs == ShortQueries \cup ExampleQueries \cup LongQueries

InitParse ==
    /\ QBIdle
    /\ qb = NewQueryBuilder
    /\ qbLast = [op |-> "NewQueryBuilder"]

\* parser.Parse(query) on a new parser.
DoParse ==
    /\ call = Nil
    /\ \E query \in ParseInputs :
        call' = [op |-> "Parse", query |-> query, result |-> Parse(query)]
    /\ UNCHANGED <<projects, logs, nextUUID, ctx, resp, qb, qbLast>>

NextParse == DoParse

SpecParse == InitParse /\ [][NextParse]_vars

(***************************************************************************)
(* SpecRace: two requests to POST /logs and DELETE /projects/:id           *)
(* interleaved statement by statement.  The statements of a batch run in   *)
(* one transaction: its rows are visible to others at commit, and the      *)
(* foreign-key check of an INSERT locks the project row it references      *)
(* until the transaction ends, so a DELETE of that project waits.          *)
(***************************************************************************)
RaceRequests == {"r1", "r2"}

\* A second project, created through the API before the requests start.
RaceProject == CreateProject({TestProject}, "My Application", 1, 2).project

\* The bodies that pass the binding and the size check.
RaceBodies == {b \in Bodies : BindLogs(b).err = Nil /\ BatchSizeOK(Len(b))}

InitRace ==
    /\ projects = {TestProject, RaceProject}
    /\ logs = {}
    /\ nextUUID = 2
    /\ ctx = [s \in RaceRequests |-> Idle]
    /\ resp = Nil
    /\ call = Nil
    /\ qb = NewQueryBuilder
    /\ qbLast = [op |-> "NewQueryBuilder"]

\* The middleware lets a request with the key of an existing project through.
RaceAuthenticate(s) ==
    /\ Delivered
    /\ ctx[s].pc = "idle"
    /\ \E p \in projects :
        LET header == <<Word("Bearer"), Sp>> \o KeyString(p.api_key)
            r == AuthRequired(TRUE, projects, header)
        IN  /\ r.next
            /\ ctx' = [ctx EXCEPT ![s] = [pc |-> "authed", header |-> header,
                                          project_id |-> r.project_id]]
    /\ UNCHANGED <<projects, logs, nextUUID, resp, call, qb, qbLast>>

\* IngestLogs up to Pool.SendBatch: the entries are bound, stamped and queued.
RaceQueue(s) ==
    /\ Delivered
    /\ ctx[s].pc = "authed"
    /\ \E body \in RaceBodies :
        LET batch == Stamp(BindLogs(body).logs, ctx[s].project_id, 3, nextUUID) IN
        /\ nextUUID + Len(batch) <= MaxUUID
        /\ nextUUID' = nextUUID + Len(batch)
        /\ ctx' = [ctx EXCEPT ![s] = [pc |-> "batch", header |-> ctx[s].header,
                                      project_id |-> ctx[s].project_id,
                                      body |-> body, batch |-> batch, sent |-> 0]]
    /\ UNCHANGED <<projects, logs, resp, call, qb, qbLast>>

\* The response of IngestLogs to the result of InsertLogsBatch.
RaceRespond(s, err) ==
    /\ resp' = [handler |-> "IngestLogs", req |-> s,
                status |-> IF err = Nil THEN 201 ELSE 500,
                error |-> IF err = Nil THEN "" ELSE "failed to store logs",
                count |-> IF err = Nil THEN Len(ctx[s].batch) ELSE 0]
    /\ call' = [op |-> "IngestLogs", project_id |-> ctx[s].project_id,
                header |-> ctx[s].header, body |-> ctx[s].body, now |-> 3,
                up |-> TRUE, batch |-> ctx[s].batch, err |-> err, before |-> logs]
    /\ ctx' = [ctx EXCEPT ![s] = Idle]

\* The store runs the next INSERT of the batch of s: it sees the committed
\* rows and the rows of its own transaction.  A rejected INSERT aborts the
\* transaction, and results.Exec() returns its error.
RaceExec(s) ==
    /\ Delivered
    /\ ctx[s].pc = "batch"
    /\ ctx[s].sent < Len(ctx[s].batch)
    /\ LET own == {ctx[s].batch[j] : j \in 1..ctx[s].sent}
           e == ctx[s].batch[ctx[s].sent + 1]
       IN  IF InsertAccepted(projects, logs \cup own, e)
           THEN /\ ctx' = [ctx EXCEPT ![s].sent = @ + 1]
                /\ UNCHANGED <<resp, call>>
           ELSE RaceRespond(s, BatchInsertError(ctx[s].sent, Len(ctx[s].batch)))
    /\ UNCHANGED <<projects, logs, nextUUID, qb, qbLast>>

\* Every INSERT of the batch of s was accepted: the transaction commits.
RaceCommit(s) ==
    /\ Delivered
    /\ ctx[s].pc = "batch"
    /\ ctx[s].sent = Len(ctx[s].batch)
    /\ logs' = logs \cup Range(ctx[s].batch)
    /\ RaceRespond(s, Nil)
    /\ UNCHANGED <<projects, nextUUID, qb, qbLast>>

\* An open transaction has inserted a row that references the project.
RowLocked(id) ==
    \E s \in RaceRequests :
        ctx[s].pc = "batch" /\ ctx[s].project_id = id /\ ctx[s].sent >= 1

\* DELETE /projects/:id, when no open transaction locks the project row.
RaceDelete ==
    /\ Delivered
    /\ \E id \in ProjectIDs(projects) :
        LET r == DeleteProjectHandler(TRUE, projects, logs, id) IN
        /\ ~RowLocked(id)
        /\ projects' = r.projects
        /\ logs' = r.logs
        /\ resp' = [handler |-> "DeleteProject", status |-> r.status, error |-> r.error]
        /\ call' = [op |-> "DeleteProject", id |-> id, up |-> TRUE, err |-> r.err,
                    before |-> logs, projectsBefore |-> projects]
    /\ UNCHANGED <<nextUUID, ctx, qb, qbLast>>

NextRace ==
    \/ \E s \in RaceRequests : RaceAuthenticate(s)
    \/ \E s \in RaceRequests : RaceQueue(s)
    \/ \E s \in RaceRequests : RaceExec(s)
    \/ \E s \in RaceRequests : RaceCommit(s)
    \/ RaceDelete
    \/ Deliver

SpecRace == InitRace /\ [][NextRace]_vars

(***************************************************************************)
(* SpecQuery: QueryLogs and SearchLogs of the database package called on   *)
(* a store whose rows include entries of equal timestamp and of equal      *)
(* relevance.                                                              *)
(***************************************************************************)
MsgDbIoIo == <<db, io, io>>

\* Rows of the logs table: three entries of one timestamp, two of them of
\* equal relevance for " Db io ", a later entry the search does not match,
\* and an entry of another project.
QueryRows ==
    { Entry(11, TestProject.id, "error", MsgDbIo, "backend", 1),
      Entry(12, TestProject.id, "error", MsgDbIo, "backend", 1),
      Entry(13, TestProject.id, "info", MsgDbIoIo, "", 1),
      Entry(14, TestProject.id, "error", MsgDbDb, "backend", 2),
      Entry(15, RaceProject.id, "error", MsgDbIo, "backend", 2) }

\* The parameters of the calls: those of the requests, and requests with the
\* same filters present and other values in them.
QueryCalls ==
    QueryInputs
    \cup {[NoFilter EXCEPT !.Level = "warn", !.Source = "api", !.Search = q] :
             q \in {<<>>, DbIo, <<"(", "i", "o", ")">>}}

InitQuery ==
    /\ projects = {TestProject, RaceProject}
    /\ logs \in SUBSET QueryRows
    /\ nextUUID = RaceProject.id
    /\ ctx = [s \in Requests |-> Idle]
    /\ resp = Nil
    /\ call = Nil
    /\ qb = NewQueryBuilder
    /\ qbLast = [op |-> "NewQueryBuilder"]

\* db.QueryLogs(ctx, projectID, params)
CallQueryLogs ==
    /\ Delivered
    /\ \E projectID \in ProjectIDs(projects), params \in QueryCalls, up \in BOOLEAN :
        /\ up \in Ups(params = NoFilter)
        /\ \E r \in QueryLogs(up, logs, projectID, params) :
            call' = [op |-> "QueryLogs", project_id |-> projectID, params |-> params,
                     up |-> up, result |-> r]
    /\ resp' = [handler |-> "none"]
    /\ UNCHANGED <<projects, logs, nextUUID, ctx, qb, qbLast>>

\* db.SearchLogs(ctx, projectID, req)
CallSearchLogs ==
    /\ Delivered
    /\ \E projectID \in ProjectIDs(projects), params \in QueryCalls, up \in BOOLEAN :
        /\ params.Search # <<>> \/ params = NoFilter
        /\ up \in Ups(params = [NoFilter EXCEPT !.Search = DbIo])
        /\ \E r \in SearchLogs(up, logs, projectID, SearchRequestOf(params)) :
            call' = [op |-> "SearchLogs", project_id |-> projectID, params |-> params,
                     up |-> up, result |-> r]
    /\ resp' = [handler |-> "none"]
    /\ UNCHANGED <<projects, logs, nextUUID, ctx, qb, qbLast>>

NextQuery == Deliver \/ CallQueryLogs \/ CallSearchLogs

SpecQuery == InitQuery /\ [][NextQuery]_vars

(***************************************************************************)
(* SpecInsert: InsertLogsBatch of the database package called with         *)
(* batches of stamped entries, the empty batch among them.                 *)
(***************************************************************************)
\* Stamped entries: two the store accepts, one whose level is too long and
\* one of a project that does not exist.
InsertEntries ==
    { Entry(11, TestProject.id, "error", MsgDbIo, "backend", 1),
      Entry(12, TestProject.id, "info", MsgDbDb, "", 2),
      Entry(13, TestProject.id, "LongLevel", MsgDbIo, "backend", 2),
      Entry(14, 7, "error", MsgDbIo, "backend", 3) }

\* The batches of no, one and two entries.
InsertBatches ==
    {<<>>} \cup {<<a>> : a \in InsertEntries}
    \cup {<<a, b>> : a \in InsertEntries, b \in InsertEntries}

InitInsert ==
    /\ projects = {TestProject}
    /\ logs = {}
    /\ nextUUID = 0
    /\ ctx = [s \in Requests |-> Idle]
    /\ resp = Nil
    /\ call = Nil
    /\ qb = NewQueryBuilder
    /\ qbLast = [op |-> "NewQueryBuilder"]

\* db.InsertLogsBatch(ctx, logs)
CallInsertLogsBatch ==
    /\ Delivered
    /\ \E batch \in InsertBatches, up \in BOOLEAN :
        LET r == InsertLogsBatch(up, projects, logs, batch) IN
        /\ logs' = r.logs
        /\ call' = [op |-> "InsertLogsBatch", batch |-> batch, up |-> up,
                    err |-> r.err, sent |-> r.sent, before |-> logs,
                    projects |-> projects]
    /\ resp' = [handler |-> "none"]
    /\ UNCHANGED <<projects, nextUUID, ctx, qb, qbLast>>

NextInsert == Deliver \/ CallInsertLogsBatch

SpecInsert == InitInsert /\ [][NextInsert]_vars

(***************************************************************************)
(* SpecPages: a client reads the matching entries of a stored table page   *)
(* by page, one QueryLogs or SearchLogs for each page, while nothing       *)
(* writes to the store.                                                    *)
(***************************************************************************)
\* The filters and the page size of a reading.
PageInputs ==
    {[NoFilter EXCEPT !.Level = l, !.Search = q, !.Limit = n] :
        l \in {"", "error"}, q \in {<<>>, DbIo}, n \in {1, 2}}

\* The results the store may give for the page at an offset: SearchLogs for
\* a reading with a search text, QueryLogs for one without.
ReadPage(projectID, p, offset) ==
    IF p.Search # <<>>
    THEN SearchLogs(TRUE, logs, projectID, SearchRequestOf([p EXCEPT !.Offset = offset]))
    ELSE QueryLogs(TRUE, logs, projectID, [p EXCEPT !.Offset = offset])

\* The first page, at offset 0.
StartReading ==
    /\ Delivered
    /\ \E projectID \in ProjectIDs(projects), p \in PageInputs :
        \E r \in ReadPage(projectID, p, 0) :
            call' = [op |-> "ReadPages", project_id |-> projectID, params |-> p,
                     next |-> p.Limit, read |-> r.logs, matched |-> r.matched]
    /\ resp' = [handler |-> "none"]
    /\ UNCHANGED <<projects, logs, nextUUID, ctx, qb, qbLast>>

\* The next page, at the offset after the pages read, while entries remain.
ContinueReading ==
    /\ call # Nil
    /\ call.op = "ReadPages"
    /\ call.next < Cardinality(call.matched)
    /\ \E r \in ReadPage(call.project_id, call.params, call.next) :
        call' = [call EXCEPT !.next = @ + call.params.Limit, !.read = @ \o r.logs]
    /\ UNCHANGED <<projects, logs, nextUUID, ctx, resp, qb, qbLast>>

NextPages == Deliver \/ StartReading \/ ContinueReading

SpecPages == InitQuery /\ [][NextPages]_vars

(***************************************************************************)
(* Claims about the service (Spec, SpecBatch).                             *)
(***************************************************************************)

\* The last step was a list or search request that the handler answered 200.
Answered200 ==
    /\ call # Nil
    /\ call.op \in {"GetLogs", "SearchLogs"}
    /\ resp.status = 200

\* The last step was a GET /logs without a search text that QueryLogs served.
Listed ==
    /\ call # Nil
    /\ call.op = "GetLogs"
    /\ call.params.Search = <<>>
    /\ call.result.err = Nil

\* The last step was a POST /logs.
Ingested == call # Nil /\ call.op = "IngestLogs"

\* A returned entry as a row of the table logs.
RowOf(e) ==
    [id |-> e.id, project_id |-> e.project_id, level |-> e.level,
     message |-> e.message, source |-> e.source, timestamp |-> e.timestamp]

\* The value the last query bound to its LIMIT and to its OFFSET placeholder.
SentLimit == call.result.sent.args[call.result.sent.sql.limitPh].v
SentOffset == call.result.sent.args[call.result.sent.sql.offsetPh].v

\* C1: a list or search scoped to project B returns only rows of the table
\* whose project id is B, and its total counts at most B's rows, also when
\* another project holds rows with the same level, source and message.
C1_TenantIsolation ==
    Answered200 =>
        /\ \A i \in 1..Len(resp.logs) :
              /\ resp.logs[i].project_id = call.project_id
              /\ RowOf(resp.logs[i]) \in logs
        /\ resp.total <= Cardinality({l \in logs : l.project_id = call.project_id})

\* C1 witness: a search returned an entry while another project holds a row
\* with the same level, source, message and timestamp.
C1_Witness ==
    /\ Answered200
    /\ call.op = "SearchLogs"
    /\ Len(resp.logs) > 0
    /\ \E l \in logs :
          /\ l.project_id # call.project_id
          /\ l.level = resp.logs[1].level /\ l.source = resp.logs[1].source
          /\ l.message = resp.logs[1].message /\ l.timestamp = resp.logs[1].timestamp

\* C2: the middleware lets a request through only when its header is
\* "Bearer <key>" with <key> the API key of a project in the table at that
\* moment, and then sets project_id to that project's id; a handler runs only
\* for a request let through and uses that project_id; whatever the middleware
\* answers itself is a 401 and leaves the request without a handler.
C2_AuthGate ==
    [][/\ \A s \in Requests :
            (ctx[s].pc = "idle" /\ ctx'[s].pc = "authed") =>
                \E p \in projects :
                    /\ ctx'[s].header = <<Word("Bearer"), Sp>> \o KeyString(p.api_key)
                    /\ ctx'[s].project_id = p.id
       /\ (call' # Nil /\ call' # call /\ call'.op \in {"IngestLogs", "GetLogs", "SearchLogs"}) =>
            /\ ctx[resp'.req].pc = "authed"
            /\ call'.project_id = ctx[resp'.req].project_id
       /\ (call' # Nil /\ call' # call /\ call'.op = "AuthRequired") =>
            /\ resp'.status = 401
            /\ ctx' = ctx]_vars

\* C2 witness: an ingest was accepted for a project created through the API.
C2_Witness ==
    /\ Ingested
    /\ resp.status = 201
    /\ call.project_id # TestProject.id

\* C3: when InsertLogsBatch has returned, every entry of the batch is in the
\* table or none is; with an error none is and the table is as before; without
\* an error all are.
C3_BatchAtomic ==
    (Ingested /\ Len(call.batch) > 0) =>
        /\ Range(call.batch) \subseteq logs \/ Range(call.batch) \cap logs = {}
        /\ call.err # Nil =>
              /\ Range(call.batch) \cap logs = {}
              /\ logs = call.before
              /\ resp.status = 500
        /\ call.err = Nil => logs = call.before \cup Range(call.batch)

\* C3 witness: the store was up, the first insert of a batch was accepted and
\* the second one failed.
C3_Witness ==
    /\ Ingested
    /\ call.up
    /\ call.err # Nil
    /\ call.err.FailedIndex = 1

\* The rows of project P that the filters of q select, as C4 states them.
C4_Selected(P, q) ==
    {l \in logs :
        /\ l.project_id = P
        /\ q.Level # "" => l.level = q.Level
        /\ q.Source # "" => l.source = q.Source
        /\ q.StartTime # "" => parseRFC3339(q.StartTime).time <= l.timestamp
        /\ q.EndTime # "" => l.timestamp <= parseRFC3339(q.EndTime).time}

\* C4: QueryLogs matches exactly the rows of the project whose level and
\* source equal the non-empty filters and whose timestamp lies in the
\* inclusive range of the given bounds; the entries it returns are among them.
C4_FilterSemantics ==
    Listed =>
        LET selected == C4_Selected(call.project_id, call.params) IN
        /\ call.result.matched = selected
        /\ {RowOf(e) : e \in Range(call.result.logs)} \subseteq selected
        /\ Len(call.result.logs) > 0 => call.result.total = Cardinality(selected)
        /\ (selected # {} /\ SentOffset = 0) => Len(call.result.logs) > 0

\* C4 witness: all four filters were given and selected some but not all rows
\* of the project.
C4_Witness ==
    /\ Listed
    /\ call.params.Level # "" /\ call.params.Source # ""
    /\ call.params.StartTime # "" /\ call.params.EndTime # ""
    /\ call.result.matched # {}
    /\ \E l \in logs : l.project_id = call.project_id /\ l \notin call.result.matched

\* C5: with N rows matching, QueryLogs with applied limit L and applied offset
\* O returns min(L, max(0, N - O)) entries and reports total = N, for every
\* O >= 0.
C5_PageAndTotal ==
    Listed =>
        LET N == Cardinality(C4_Selected(call.project_id, call.params)) IN
        /\ Len(call.result.logs) = Min(SentLimit, Max(0, N - SentOffset))
        /\ call.result.total = N

\* The limits and offsets C6 is checked on.
C6_Inputs == {-1000, -1, 0, 1, 2, 49, 50, 51, 999, 1000, 1001, 5000}

\* C6: validateLimit(limit, 50, 1000) is limit within 1..1000, 50 for
\* limit <= 0 and 1000 above 1000; validateOffset(offset) is offset when
\* offset >= 0 and 0 otherwise; every query sent to the store binds LIMIT to a
\* value in 1..1000 and OFFSET to a value >= 0.
C6_Clamping ==
    /\ \A n \in C6_Inputs :
          /\ validateLimit(n, 50, 1000) =
                (IF n <= 0 THEN 50 ELSE IF n > 1000 THEN 1000 ELSE n)
          /\ validateOffset(n) = (IF n >= 0 THEN n ELSE 0)
    /\ (/\ call # Nil
        /\ call.op \in {"GetLogs", "SearchLogs"}
        /\ call.result # Nil
        /\ call.result.sent # Nil) =>
            /\ SentLimit \in 1..1000
            /\ SentOffset >= 0

\* C6 witness: a search whose client asked for limit -1 reached the store.
C6_Witness ==
    /\ call # Nil
    /\ call.op = "SearchLogs"
    /\ call.params.Limit = -1
    /\ call.result # Nil
    /\ call.result.sent # Nil

\* A body whose entries have a level and a message, the level fitting the column.
C7_WellFormed(body) ==
    \A i \in 1..Len(body) :
        /\ body[i].level # "" /\ LevelLen(body[i].level) <= 20
        /\ body[i].message # <<>>

\* C7: a batch of 0 or of more than 1000 entries is rejected with 400 and
\* persists nothing; a batch of 1 to 1000 well-formed entries is accepted with
\* 201 and a count equal to its size.
C7_BatchSizeBounds ==
    Ingested =>
        LET n == Len(call.body) IN
        /\ (n = 0 \/ n > 1000) => (resp.status = 400 /\ logs = call.before)
        /\ (n \in 1..1000 /\ C7_WellFormed(call.body)) =>
              (resp.status = 201 /\ resp.count = n)

\* C7 as amended: a batch of 0 or of more than 1000 entries is rejected with
\* 400 and persists nothing; a batch of 1 to 1000 well-formed entries is never
\* rejected: it is answered 201 with a count equal to its size and all its
\* entries stored when the store accepts the batch, which it does when it is
\* reachable and the project still exists, and 500 with nothing stored
\* otherwise.
C7_BatchSizeAmended ==
    Ingested =>
        LET n == Len(call.body) IN
        /\ (n = 0 \/ n > 1000) => (resp.status = 400 /\ logs = call.before)
        /\ (n \in 1..1000 /\ C7_WellFormed(call.body)) =>
              /\ \/ resp.status = 201 /\ resp.count = n /\ Cardinality(logs) = n
                 \/ resp.status = 500 /\ logs = call.before
              /\ (call.up /\ call.project_id \in ProjectIDs(projects)) => resp.status = 201

\* C7 witness: a batch of exactly 1000 entries was accepted.
C7_Witness ==
    /\ Ingested
    /\ Len(call.body) = 1000
    /\ resp.status = 201
    /\ Cardinality(logs) = 1000

C9_BuilderAligned ==
    /\ Len(WhereClause(qb)) = Len(Args(qb))
    /\ Len(Args(qb)) = NextArgNum(qb) - 1
    /\ \A i \in 1..Len(WhereClause(qb)) : WhereClause(qb)[i].ph = i
    /\ qbLast.op \in {"AddCondition", "AddFullTextSearch"} =>
          /\ Len(WhereClause(qb)) = Len(WhereClause(qbLast.before)) + 1
          /\ LET c == WhereClause(qb)[Len(WhereClause(qb))]
             IN  c.ph \in 1..Len(Args(qb)) /\ Args(qb)[c.ph] = qbLast.value
    /\ qbLast.op = "AddTimeRange" =>
          \A i \in (Len(WhereClause(qbLast.before)) + 1)..Len(WhereClause(qb)) :
              LET c == WhereClause(qb)[i] IN
              /\ c.ph \in 1..Len(Args(qb))
              /\ c.op = ">=" => Args(qb)[c.ph] = TimeArg(parseRFC3339(qbLast.start).time)
              /\ c.op = "<=" => Args(qb)[c.ph] = TimeArg(parseRFC3339(qbLast.end).time)

\* C9 witness: a failing AddTimeRange on a builder that already holds an
\* equality condition and a full-text condition, and kept its start bound.
C9_Witness ==
    /\ qbLast.op = "AddTimeRange"
    /\ qbLast.err # Nil
    /\ Len(WhereClause(qb)) = Len(WhereClause(qbLast.before)) + 1
    /\ Len(WhereClause(qb)) >= 3
    /\ \E i \in 1..Len(WhereClause(qb)) : WhereClause(qb)[i].op = "@@"

\* C10: AddTimeRange adds one condition for a valid start alone, one for a
\* valid end alone, none when both are empty, and when a non-empty bound is
\* not RFC3339 it returns an error and leaves the builder as it was before the
\* call.
C10_TimeRangeAllOrNothing ==
    qbLast.op = "AddTimeRange" =>
        LET added == Len(WhereClause(qb)) - Len(WhereClause(qbLast.before))
            bad(s) == s # "" /\ parseRFC3339(s).err # Nil
        IN  IF bad(qbLast.start) \/ bad(qbLast.end)
            THEN qbLast.err # Nil /\ qb = qbLast.before
            ELSE /\ qbLast.err = Nil
                 /\ (qbLast.start # "" /\ qbLast.end = "") => added = 1
                 /\ (qbLast.start = "" /\ qbLast.end # "") => added = 1
                 /\ (qbLast.start = "" /\ qbLast.end = "") => added = 0


(***************************************************************************)
(* Claims about SearchQueryParser.Parse (SpecParse).                       *)
(***************************************************************************)

\* The last step was a call of Parse.
Parsed == call # Nil /\ call.op = "Parse"

\* The terms of a query text as C11 and C12 state them: the text trimmed,
\* its quotes and parentheses deleted, split on white space.
C11_Terms(query) == Fields(sanitize(TrimSpace(query)))

\* The reference computation of C11: the terms of at least 2 characters,
\* lower-cased, joined with " & ".
C11_Reference(query) ==
    LET long(w) == Len(w) >= 2
        kept == SelectSeq(C11_Terms(query), long)
    IN  Join([i \in 1..Len(kept) |-> ToLower(kept[i])], <<" ", "&", " ">>)

\* C11: for every input that Parse accepts, the expression it returns is the
\* reference computation: trim, delete quotes and parentheses, split on white
\* space, drop the terms shorter than 2 characters, lower-case the rest and
\* join them in order with " & ".
C11_ParseResult ==
    (Parsed /\ call.result.err = Nil) =>
        call.result.tsQuery = C11_Reference(call.query)

\* The outcome of Parse on a query text as C12 states it.
C12_Outcome(query) ==
    LET n == Len(TrimSpace(query))
        terms == C11_Terms(query)
    IN  IF n < 3 THEN "search query must be at least 3 characters"
        ELSE IF n > 1000 THEN "search query too long"
        ELSE IF Len(terms) = 0 THEN "search query is empty"
        ELSE IF \A i \in 1..Len(terms) : Len(terms[i]) < 2 THEN "no valid search terms"
        ELSE "accepted"

\* C12: Parse rejects with 'too short' iff the trimmed text has fewer than 3
\* characters, otherwise 'too long' iff it has more than 1000, otherwise
\* 'empty' iff no term remains, otherwise 'no valid search terms' iff every
\* term is shorter than 2 characters; a rejection returns the empty
\* expression, and every other input is accepted.
C12_ParseRejections ==
    Parsed =>
        /\ (IF call.result.err = Nil THEN "accepted" ELSE call.result.err.t)
              = C12_Outcome(call.query)
        /\ call.result.err # Nil => call.result.tsQuery = <<>>

(***************************************************************************)
(* Claims about error handling (Spec).                                     *)
(***************************************************************************)

\* The parameters of a list or search request fail validation: a bound that
\* is not RFC3339, or a search text that Parse rejects.
C13_Invalid(op, p) ==
    \/ p.StartTime # "" /\ parseRFC3339(p.StartTime).err # Nil
    \/ p.EndTime # "" /\ parseRFC3339(p.EndTime).err # Nil
    \/ (op = "SearchLogs" \/ p.Search # <<>>) /\ Parse(p.Search).err # Nil

\* C13: a list or search request whose start_time or end_time is not RFC3339
\* or whose search text Parse rejects is answered 400, not 500, and returns
\* no rows.
C13_ValidationIs400 ==
    (/\ call # Nil
     /\ call.op \in {"GetLogs", "SearchLogs"}
     /\ C13_Invalid(call.op, call.params)) =>
        /\ resp.status = 400
        /\ resp.logs = <<>>

\* The last request reached a store operation while the store was failing:
\* its input passed every validation the code runs before the operation.
C14_StoreFailed ==
    /\ call # Nil
    /\ ~call.up
    /\ CASE call.op = "AuthRequired" ->
              /\ call.header # <<>>
              /\ Len(Split(call.header)) = 2
              /\ Split(call.header)[1] = <<Word("Bearer")>>
         [] call.op = "CreateProject" -> NameLen(call.name) \in 3..255
         [] call.op = "IngestLogs" ->
              BindLogs(call.body).err = Nil /\ BatchSizeOK(Len(call.body))
         [] call.op = "GetLogs" -> ~C13_Invalid(call.op, call.params)
         [] call.op = "SearchLogs" ->
              Len(call.params.Search) >= 3 /\ ~C13_Invalid(call.op, call.params)
         [] OTHER -> TRUE

\* The messages of the 500 responses that carry no detail of the error.
C14_GenericMessages ==
    {"failed to store logs", "failed to retrieve logs", "search failed",
     "failed to create project", "failed to list projects", "failed to get project",
     "failed to delete project", "internal server error"}

\* C14: when a store operation fails for a reason other than validation or
\* not-found, the response is 500 with a generic message and no detail of
\* the error, on every endpoint, the API-key lookup of the middleware and
\* get-, create- and delete-project included.
C14_StoreFailureIs500 ==
    C14_StoreFailed =>
        /\ resp.status = 500
        /\ resp.error \in C14_GenericMessages
        /\ "details" \in DOMAIN resp => resp.details = ""

(***************************************************************************)
(* Claims about projects and API keys (Spec).                              *)
(***************************************************************************)

\* The project ids issued so far that no project has: the deleted projects
\* (and the UUIDs given to keys and entries, which never were projects).
C15_Gone == ((1..nextUUID) \cup {TestProject.id}) \ ProjectIDs(projects)

\* C15: a DeleteProject(p) that succeeds removes p and every log entry of p
\* and nothing else; from then on GetProject(p) answers not found, p's key
\* passes the middleware no more, and no later step brings back p or an
\* entry of p.
C15_CascadingDelete ==
    [][/\ (call = Nil /\ call' # Nil /\ call'.op = "DeleteProject" /\ resp'.status = 200) =>
            /\ call'.id \in ProjectIDs(projects)
            /\ projects' = {p \in projects : p.id # call'.id}
            /\ logs' = {l \in logs : l.project_id # call'.id}
            /\ GetProjectHandler(TRUE, projects', call'.id).status = 404
            /\ \A p \in projects :
                  p.id = call'.id =>
                     ~AuthRequired(TRUE, projects',
                                   <<Word("Bearer"), Sp>> \o KeyString(p.api_key)).next
       /\ \A id \in C15_Gone :
            /\ id \notin ProjectIDs(projects')
            /\ \A l \in logs' : l.project_id # id
       /\ (call = Nil /\ call' # Nil /\ call'.op = "GetProject" /\ call'.up
             /\ call'.id \notin ProjectIDs(projects)) =>
            resp'.status = 404
       /\ \A s \in Requests :
            (ctx[s].pc = "idle" /\ ctx'[s].pc = "authed") =>
                ctx'[s].project_id \in ProjectIDs(projects)]_vars

\* C15 witness: a project that had log entries was deleted while another
\* project keeps its own.
C15_Witness ==
    /\ call # Nil
    /\ call.op = "DeleteProject"
    /\ resp.status = 200
    /\ \E l \in call.before : l.project_id = call.id
    /\ \E l \in logs : l.project_id # call.id

\* C16: deleting an id that no project has leaves both tables as they were,
\* the database operation returns the error 'project not found', and the
\* endpoint answers not found (404 or a 'not found' message), not a storage
\* failure.
C16_DeleteNotFound ==
    (/\ call # Nil
     /\ call.op = "DeleteProject"
     /\ call.up
     /\ call.id \notin ProjectIDs(call.projectsBefore)) =>
        /\ projects = call.projectsBefore
        /\ logs = call.before
        /\ call.err # Nil
        /\ call.err.t = "project not found"
        /\ resp.status = 404 \/ resp.error = "project not found"

\* A response carries an API key.
C17_Discloses(r) ==
    CASE r.handler = "CreateProject" \/ r.handler = "GetProject" ->
              r.project # Nil /\ "api_key" \in DOMAIN r.project
      [] r.handler = "ListProjects" -> \E q \in r.projects : "api_key" \in DOMAIN q
      [] OTHER -> FALSE

\* C17: only the response to the create-project request that generated an
\* API key carries it; the responses of list projects, get project and the
\* log endpoints carry no API key.
C17_KeyShownOnce ==
    (resp # Nil /\ resp.handler # "CreateProject") => ~C17_Discloses(resp)

\* C18: a failed authentication is answered with the same status and the
\* same message as every other failed authentication, whether the header is
\* missing, malformed or holds a key that matches no project.
C18_SameAuthFailure ==
    (call # Nil /\ call.op = "AuthRequired") =>
        \A header \in Headers, up \in BOOLEAN :
            LET r == AuthRequired(up, projects, header) IN
            ~r.next => (r.status = resp.status /\ r.error = resp.error)

\* C19: in every reachable state no two projects have the same API key; a
\* successful CreateProject adds one project whose key is 'jazz_' followed by
\* a token never issued before; and no step changes the key of a project that
\* exists before and after it.
C19_KeyInvariant ==
    /\ [](\A p \in projects, q \in projects : p.api_key = q.api_key => p = q)
    /\ [][/\ \A p \in projects, q \in projects' : q.id = p.id => q.api_key = p.api_key
          /\ (call = Nil /\ call' # Nil /\ call'.op = "CreateProject"
                /\ resp'.status = 201) =>
               /\ resp'.project.api_key.prefix = "jazz_"
               /\ resp'.project.api_key.token > nextUUID
               /\ \A p \in projects : p.api_key # resp'.project.api_key
               /\ projects' = projects \cup {resp'.project}
          /\ projects' \ projects # {} =>
               (call' # Nil /\ call'.op = "CreateProject" /\ resp'.status = 201)]_vars

\* C19 witness: a project was created while two other projects exist.
C19_Witness ==
    /\ call # Nil
    /\ call.op = "CreateProject"
    /\ resp.status = 201
    /\ Cardinality(projects) >= 3

(***************************************************************************)
(* Claims about concurrent requests (SpecRace).                            *)
(***************************************************************************)

\* C20: in every reachable state of every interleaving of ingests with
\* deletions of their projects, every stored log entry references a project
\* that exists; and an ingest that ends after its project was deleted fails
\* and stores nothing.
C20_ReferentialIntegrity ==
    /\ \A l \in logs : l.project_id \in ProjectIDs(projects)
    /\ (Ingested /\ call.project_id \notin ProjectIDs(projects)) =>
          /\ resp.status = 500
          /\ call.err # Nil
          /\ logs = call.before
          /\ Range(call.batch) \cap logs = {}

\* C20 witness: an authenticated ingest failed because its project had been
\* deleted, while the batch of another request is open and entries of
\* another project are stored.
C20_Witness ==
    /\ Ingested
    /\ resp.status = 500
    /\ call.project_id \notin ProjectIDs(projects)
    /\ \E s \in RaceRequests : ctx[s].pc = "batch"
    /\ logs # {}

(***************************************************************************)
(* Claims about the queries of the database package (SpecQuery).           *)
(***************************************************************************)

\* The last step was a call of QueryLogs or SearchLogs that returned entries
\* and no error.
Queried ==
    /\ call # Nil
    /\ call.op \in {"QueryLogs", "SearchLogs"}
    /\ call.result.err = Nil

\* The relevance of a matching row for the search expression of the last
\* query, 0 for a query without a search text.
C21_Relevance(row) ==
    IF call.params.Search = <<>> THEN 0
    ELSE TsRank(row.message, Parse(call.params.Search).tsQuery)

\* Row a comes strictly before row b in the order C21 states: by relevance
\* for a search, then by timestamp, the greater first.
C21_Precedes(a, b) ==
    \/ C21_Relevance(a) > C21_Relevance(b)
    \/ C21_Relevance(a) = C21_Relevance(b) /\ a.timestamp > b.timestamp

\* C21: a QueryLogs without search text returns its entries in non-increasing
\* timestamp order, a search in non-increasing relevance order with ties in
\* non-increasing timestamp order, and the page for (limit, offset) is the
\* slice [offset, offset+limit) of such an order of all matching rows: some
\* offset rows that nothing precedes come before the page, and no row left
\* out after the page precedes a row of the page.
C21_ResultOrdering ==
    Queried =>
        LET es == call.result.logs
            M == call.result.matched
            P == {RowOf(es[i]) : i \in 1..Len(es)}
            N == Cardinality(M)
        IN  /\ \A i \in 1..Len(es) - 1 : ~C21_Precedes(RowOf(es[i + 1]), RowOf(es[i]))
            /\ call.params.Search # <<>> =>
                  \A i \in 1..Len(es) :
                      es[i].rank = [set |-> TRUE, v |-> C21_Relevance(RowOf(es[i]))]
            /\ P \subseteq M
            /\ Cardinality(P) = Len(es)
            /\ Len(es) = Max(0, Min(SentLimit, N - SentOffset))
            /\ \E A \in SUBSET (M \ P) :
                  /\ Cardinality(A) = Min(SentOffset, N)
                  /\ \A a \in A, x \in M \ A : ~C21_Precedes(x, a)
                  /\ \A p \in P, z \in M \ (A \cup P) : ~C21_Precedes(z, p)

\* C21 witness: a search returned the second page of one entry out of three
\* matching rows of two relevances, two of them equal in relevance and
\* timestamp.
C21_Witness ==
    /\ Queried
    /\ call.op = "SearchLogs"
    /\ SentOffset = 1
    /\ Len(call.result.logs) = 1
    /\ Cardinality(call.result.matched) = 3
    /\ \E a, b \in call.result.matched :
          a # b /\ ~C21_Precedes(a, b) /\ ~C21_Precedes(b, a)
    /\ \E a, b \in call.result.matched : C21_Precedes(a, b)

\* The last step was a call of QueryLogs.
C22_Called == call # Nil /\ call.op = "QueryLogs"

\* C22: QueryLogs with a non-empty search text returns exactly what
\* SearchLogs returns for the same project, text, filters, limit and offset
\* (entries with their rank, total and error), and the query it sends, if
\* any, is the search query and not the plain filter query; with an empty
\* search text the plain filter query runs and no entry carries a rank.
C22_SearchDelegation ==
    C22_Called =>
        LET r == call.result
            search == SearchLogs(call.up, logs, call.project_id,
                                 SearchRequestOf(call.params))
        IN  IF call.params.Search # <<>>
            THEN /\ r \in search
                 /\ QueryLogs(call.up, logs, call.project_id, call.params) = search
                 /\ r.sent # Nil =>
                       /\ r.sent.sql.rank
                       /\ r.sent.sql.orderBy = "rank"
                       /\ \E i \in 1..Len(r.sent.sql.where) : r.sent.sql.where[i].op = "@@"
                 /\ \A i \in 1..Len(r.logs) : r.logs[i].rank.set
            ELSE /\ r.sent # Nil =>
                       /\ ~r.sent.sql.rank
                       /\ r.sent.sql.orderBy = columnTimestamp
                       /\ \A i \in 1..Len(r.sent.sql.where) : r.sent.sql.where[i].op # "@@"
                 /\ \A i \in 1..Len(r.logs) : ~r.logs[i].rank.set

\* C22 witness: QueryLogs with a search text and a level filter returned two
\* ranked entries out of the rows of the table.
C22_Witness ==
    /\ C22_Called
    /\ call.params.Search # <<>>
    /\ call.params.Level # ""
    /\ call.result.err = Nil
    /\ Len(call.result.logs) = 2

(***************************************************************************)
(* Claims about the pages of the list and search endpoints (Spec).         *)
(***************************************************************************)

\* C23: in every 200 response of the list and of the search endpoint,
\* has_more is true exactly when the offset plus the limit applied to the
\* query is less than the number of all matching entries, for every limit
\* and offset the client supplied: zero, negative and over the maximum.
C23_HasMore ==
    Answered200 =>
        (resp.has_more <=>
            SentOffset + SentLimit < Cardinality(call.result.matched))

(***************************************************************************)
(* Claims about InsertLogsBatch (SpecInsert, SpecBatch).                   *)
(***************************************************************************)

\* C24: InsertLogsBatch called with an empty batch returns nil, sends
\* nothing to the store and leaves the tables projects and logs as they
\* were, whether or not the store can be reached.
C24_EmptyBatchNoOp ==
    (call # Nil /\ call.op = "InsertLogsBatch" /\ Len(call.batch) = 0) =>
        /\ call.err = Nil
        /\ ~call.sent
        /\ logs = call.before
        /\ projects = call.projects

\* C24 witness: InsertLogsBatch was called with an empty batch while rows
\* are stored and the store cannot be reached.
C24_Witness ==
    /\ call # Nil
    /\ call.op = "InsertLogsBatch"
    /\ Len(call.batch) = 0
    /\ ~call.up
    /\ Cardinality(logs) = 2

(***************************************************************************)
(* Claims about the text and the arguments of the queries (SpecQuery).     *)
(***************************************************************************)

\* The last step was a call of QueryLogs or SearchLogs that sent a query to
\* the store.
QuerySent ==
    /\ call # Nil
    /\ call.op \in {"QueryLogs", "SearchLogs"}
    /\ call.result.sent # Nil

\* The optional filters present in the parameters of a request.
C25_Present(p) ==
    {f \in {"Level", "Source", "StartTime", "EndTime"} : p[f] # ""}
    \cup (IF p.Search # <<>> THEN {"Search"} ELSE {})

\* The results of the operation of the last call for other inputs.
C25_Run(projectID, p) ==
    IF call.op = "QueryLogs" THEN QueryLogs(TRUE, logs, projectID, p)
    ELSE SearchLogs(TRUE, logs, projectID, SearchRequestOf(p))

\* C25: the text of the query that QueryLogs or SearchLogs sends is a
\* function only of which optional filters are present: every request of
\* the same operation with the same filters present, whatever the project,
\* the filter values, the limit and the offset, sends the same text with as
\* many arguments of the same types; the text consists of column names,
\* operators and placeholder numbers.
C25_NoValueInSQLText ==
    QuerySent =>
        LET sent == call.result.sent IN
        /\ \A i \in 1..Len(sent.sql.where) :
              /\ DOMAIN sent.sql.where[i] = {"column", "op", "ph"}
              /\ sent.sql.where[i].column \in
                    {columnProjectID, columnLevel, columnSource, columnTimestamp,
                     columnMessage}
              /\ sent.sql.where[i].op \in {"=", ">=", "<=", "@@"}
              /\ sent.sql.where[i].ph \in 1..Len(sent.args)
        /\ \A projectID \in ProjectIDs(projects), p \in QueryCalls :
              C25_Present(p) = C25_Present(call.params) =>
                  \A r \in C25_Run(projectID, p) :
                      r.sent # Nil =>
                          /\ r.sent.sql = sent.sql
                          /\ Len(r.sent.args) = Len(sent.args)
                          /\ \A i \in 1..Len(sent.args) :
                                r.sent.args[i].t = sent.args[i].t

\* C25 witness: a query with a level, a source and a search text was sent,
\* and a request of another project with another level, source and search
\* text sends a query with other arguments.
C25_Witness ==
    /\ QuerySent
    /\ C25_Present(call.params) = {"Level", "Source", "Search"}
    /\ \E projectID \in ProjectIDs(projects), p \in QueryCalls :
          /\ C25_Present(p) = C25_Present(call.params)
          /\ projectID # call.project_id
          /\ p.Level # call.params.Level
          /\ p.Source # call.params.Source
          /\ p.Search # call.params.Search
          /\ \E r \in C25_Run(projectID, p) :
                /\ r.sent # Nil
                /\ \A i \in 1..3 : r.sent.args[i] # call.result.sent.args[i]

\* The insert of the i-th entry (from 1) of the batch of the last ingest
\* fails: the store cannot be reached, or the store rejects the row.  The
\* ids of a stamped batch are fresh and distinct.
C26_Fails(i) ==
    \/ ~call.up
    \/ ~InsertAccepted(projects, call.before, call.batch[i])

\* C26: whenever the batch insert of an ingest fails, the BatchInsertError
\* has TotalLogs equal to the batch size and FailedIndex equal to the
\* smallest index i in 0..TotalLogs-1 whose insert failed, and the endpoint
\* answers the generic 500 whose body carries only an error message and not
\* the index; an insert without a failing index returns no error.
C26_BatchFailureReport ==
    (Ingested /\ Len(call.batch) > 0) =>
        LET failing == {i \in 1..Len(call.batch) : C26_Fails(i)} IN
        IF failing = {} THEN call.err = Nil /\ resp.status = 201
        ELSE /\ call.err # Nil
             /\ call.err.t = "BatchInsertError"
             /\ call.err.TotalLogs = Len(call.batch)
             /\ call.err.FailedIndex \in 0..(call.err.TotalLogs - 1)
             /\ call.err.FailedIndex + 1 \in failing
             /\ \A i \in failing : call.err.FailedIndex + 1 <= i
             /\ resp.status = 500
             /\ resp.error = "failed to store logs"
             /\ resp.count = 0
             /\ DOMAIN resp = {"handler", "req", "status", "error", "count"}

\* C26 witness: an ingest of 1000 entries failed at its last entry while
\* the store could be reached.
C26_Witness ==
    /\ Ingested
    /\ call.up
    /\ call.err # Nil
    /\ call.err.TotalLogs = maxBatchSize
    /\ call.err.FailedIndex = maxBatchSize - 1
    /\ resp.status = 500

(***************************************************************************)
(* Claims about concurrent ingests (SpecRace).                             *)
(***************************************************************************)

\* C27: in every interleaving of the steps of concurrent ingests, for the
\* same or for different projects, an ingest that succeeds adds exactly the
\* entries it submitted, each once and tagged with the project of its own
\* caller, to the rows already stored; an ingest that fails and every other
\* step of an ingest leave the stored rows as they are; so the store holds
\* the union of the entries of the successful ingests, and no two rows
\* share an id.
C27_ConcurrentIngests ==
    /\ [](\A a, b \in logs : a.id = b.id => a = b)
    /\ [][/\ (call' # Nil /\ call'.op = "IngestLogs" /\ resp'.status = 201) =>
                /\ logs' = logs \cup Range(call'.batch)
                /\ Range(call'.batch) \cap logs = {}
                /\ Cardinality(logs') = Cardinality(logs) + Len(call'.body)
                /\ Len(call'.batch) = Len(call'.body)
                /\ \A i \in 1..Len(call'.batch) :
                      /\ call'.batch[i].project_id = call'.project_id
                      /\ call'.batch[i].message = call'.body[i].message
                      /\ call'.batch[i].level = call'.body[i].level
                      /\ call'.batch[i].source = call'.body[i].source
          /\ (call' # Nil /\ call'.op = "IngestLogs" /\ resp'.status # 201) =>
                logs' = logs
          /\ (call' = Nil \/ call'.op # "DeleteProject") =>
                logs \subseteq logs'
          /\ call' = Nil => logs' = logs]_vars

\* C27 witness: an ingest of two entries succeeded while the transaction of
\* another ingest for the same project was open and had inserted a row, and
\* rows of an earlier ingest were stored.
C27_Witness ==
    /\ Ingested
    /\ resp.status = 201
    /\ Len(call.batch) = 2
    /\ \E s \in RaceRequests :
          /\ ctx[s].pc = "batch"
          /\ ctx[s].project_id = call.project_id
          /\ ctx[s].sent >= 1

(***************************************************************************)
(* Claims about the text-search expression of Parse (SpecParse).           *)
(***************************************************************************)

\* The characters a term of C28 must not contain: quotes, parentheses and
\* the operator characters of a text-search expression.
C28_Forbidden == {"\"", "'", "(", ")", "&", "|", "!", ":", "*", "<", ">"}

\* The terms of an expression: every other one of its white-space separated
\* parts, from the first.
C28_Terms(tsQuery) ==
    LET parts == Fields(tsQuery) IN
    [k \in 1..((Len(parts) + 1) \div 2) |-> parts[2 * k - 1]]

\* C28: every expression Parse returns is a pure AND-conjunction: one or
\* more terms joined by " & ", each term lower-case, of at least 2
\* characters, without white space, quote or parenthesis and without a
\* text-search operator character (& | ! : * < >).
C28_PureConjunction ==
    (Parsed /\ call.result.err = Nil) =>
        LET terms == C28_Terms(call.result.tsQuery) IN
        /\ Len(terms) >= 1
        /\ call.result.tsQuery = Join(terms, <<" ", "&", " ">>)
        /\ \A k \in 1..Len(terms) :
              /\ Len(terms[k]) >= 2
              /\ ToLower(terms[k]) = terms[k]
              /\ \A i \in 1..Len(terms[k]) : terms[k][i] \notin C28_Forbidden

\* The limit and the offset of C29: the limit of the request, 50 for one
\* that is not positive and at most 1000; the offset, 0 for a negative one.
C29_Limit(n) == IF n <= 0 THEN defaultLimit ELSE Min(n, maxLimit)
C29_Offset(n) == Max(n, 0)

\* The value a request gives the column of a condition.
C29_Value(c, p) ==
    CASE c.op = "@@" -> TsQueryArg(Parse(p.Search).tsQuery)
      [] c.column = columnLevel -> TextArg(p.Level)
      [] c.column = columnSource -> TextArg(p.Source)
      [] c.op = ">=" -> TimeArg(parseRFC3339(p.StartTime).time)
      [] c.op = "<=" -> TimeArg(parseRFC3339(p.EndTime).time)

\* C29: in every query QueryLogs or SearchLogs sends, whichever optional
\* filters are present, placeholder $1 is bound to the project id of the
\* caller, every filter placeholder to the value of its filter, the LIMIT
\* and OFFSET placeholders to the last two arguments, the clamped limit
\* and then the clamped offset, which no filter placeholder uses, and in a
\* search the $2 of ts_rank to the normalised search expression.
C29_PlaceholderBinding ==
    QuerySent =>
        LET sent == call.result.sent
            sql == sent.sql
            n == Len(sent.args)
        IN  /\ Len(sql.where) >= 1
            /\ sql.where[1] = Cond(columnProjectID, "=", 1)
            /\ sent.args[1] = UUIDArg(call.project_id)
            /\ sql.limitPh = n - 1
            /\ sql.offsetPh = n
            /\ sent.args[n - 1] = IntArg(C29_Limit(call.params.Limit))
            /\ sent.args[n] = IntArg(C29_Offset(call.params.Offset))
            /\ \A i \in 1..Len(sql.where) :
                  /\ sql.where[i].ph \in 1..(n - 2)
                  /\ \A j \in 1..Len(sql.where) : sql.where[j].ph = sql.where[i].ph => j = i
                  /\ i > 1 => sent.args[sql.where[i].ph] = C29_Value(sql.where[i], call.params)
            /\ sql.rank <=> call.params.Search # <<>>
            /\ sql.rank =>
                  /\ sent.args[2] = TsQueryArg(Parse(call.params.Search).tsQuery)
                  /\ \E i \in 1..Len(sql.where) :
                        sql.where[i].op = "@@" /\ sql.where[i].ph = 2

\* C29 witness: a search with a level, a source, a start and an end time
\* sent a query of six conditions and eight arguments.
C29_Witness ==
    /\ QuerySent
    /\ call.result.sent.sql.rank
    /\ Len(call.result.sent.sql.where) = 6
    /\ Len(call.result.sent.args) = 8
    /\ call.result.err = Nil

(***************************************************************************)
(* Claims about reading page by page (SpecPages).                          *)
(***************************************************************************)

\* C30: while the store does not change, reading the N matching entries
\* page by page, with the same filters and limit L at the offsets 0, L,
\* 2L, ..., returns every matching entry exactly once, also when several
\* entries have the same timestamp (list) or the same rank and timestamp
\* (search).
C30_CompletePaging ==
    (call # Nil /\ call.op = "ReadPages" /\ call.next >= Cardinality(call.matched)) =>
        /\ Len(call.read) = Cardinality(call.matched)
        /\ \A m \in call.matched :
              Cardinality({i \in 1..Len(call.read) : RowOf(call.read[i]) = m}) = 1

====
